---- MODULE Spec2Model ----
(***************************************************************************)
(* Model of the gotogen frame controller (src/unnamed/part_004, the        *)
(* revision of gotogen.go with the animation engine), its menu tree        *)
(* (src/gotogen.go, lines 793-918, menu.go) and the mirror compositor      *)
(* (src/internal/mirror/mirror.go).                                        *)
(*                                                                         *)
(* The controller is single threaded: one RunTick call is one step.  The   *)
(* handlers are written as operators from a controller record to a         *)
(* controller record, in the order the code runs them; the action RunTick  *)
(* composes them and assigns the result to the variables.                  *)
(***************************************************************************)
EXTENDS Integers, Sequences, FiniteSets, TLC

\* ------------------------------------------------------------- bounds

\* Ticks explored from Init (the guard of RunTick caps the tick counter).
MaxTicks == 10
\* Longest list the driver's MenuItems() returns.
MaxHwItems == 3
\* Images media.Enumerate(TypeFull) finds (one animation submenu each).
NumImages == 1
\* Options of the driver's first SettingItem.
HwOptions == 2
\* Largest physical width and height of a surface a Mirror is built over.
MaxRealW == 5
MaxRealH == 2
\* Colours written through a Mirror, and SetPixel calls made on it.
NumColors == 2
MaxWrites == 2
\* Rows of the image a Peek animation shows.
ImgRows == 1
\* Ticks explored with animations, with sensors and with failing displays.
MaxAnimTicks == 14
MaxSensorTicks == 4
MaxFaultTicks == 5
\* The framerate given to New, and ticks explored around the FPS counter.
Framerate == 3
MaxFpsTicks == 8
\* Ticks explored after New and Init.
MaxLifeTicks == 3
\* RGBA() calls made on one RGB565 value.
MaxConversions == 1
\* The last tick explored inside the settings of the menu.
MaxSettingTicks == 17
\* Ticks explored around calls of Busy.
MaxBusyTicks == 8
\* Columns and rows of the image Peek shows, and of the surface.
MaxPeekW == 2
MaxPeekH == 2
MaxSurfW == 2
MaxSurfH == 2

\* -------------------------------------------------- program constants

\* menuTimeout, in seconds.
menuTimeout == 10
\* Rows of the status text buffer (_, h := statusText.Size()): the 128x64
\* panel with the 6x8 font, the smallest Init accepts.
TextRows == 8
\* len(Options) of the three built-in settings.
SkipOptions == 6
ColorOptions == 4
CutoffOptions == 14
\* Their initial Active indexes.
SkipActive0 == 0
ColorActive0 == 1
CutoffActive0 == 9

\* colorChannel
colorChannelNone == 0
colorChannelRed == 1
colorChannelGreen == 2
colorChannelBlue == 3

\* Peek's dwell and step delays (3 s, 100 ms), in tenths of a second.
PeekDwell == 30
PeekDelay == 1

\* uint8 arithmetic
U8(x) == x % 256

\* ------------------------------------------------------------ the tree

Nil == <<"nil", 0>>
Root == <<"root", 0>>
Hw == <<"hw", 0>>
Anims == <<"anims", 0>>
Internal == <<"internal", 0>>
Img(i) == <<"img", i>>
BlankAct == <<"blank", 0>>
SkipItem == <<"skip", 0>>
ColorItem == <<"color", 0>>
CutoffItem == <<"cutoff", 0>>
StaticAct(i) == <<"static", i>>
SlideAct(i) == <<"slide", i>>
PeekAct(i) == <<"peek", i>>

\* The driver's items: MenuItems() returns the first n entries of this
\* catalogue, n chosen by the driver each time the menu is opened.
\* Odd entries are SettingItems, even entries ActionItems; only the first
\* setting has options.
HwItem(k) == IF k % 2 = 1 THEN <<"hwset", k>> ELSE <<"hwact", k>>

HwSettings == {HwItem(k) : k \in {j \in 1..MaxHwItems : j % 2 = 1}}

MenuNodes == {Root, Hw, Anims, Internal} \cup {Img(i) : i \in 1..NumImages}
SettingNodes == {SkipItem, ColorItem, CutoffItem} \cup HwSettings
\* The nodes that implement Menuable.
Menuables == MenuNodes \cup SettingNodes

\* Options of a SettingItem.
NumOptions(s) ==
    CASE s = SkipItem -> SkipOptions
      [] s = ColorItem -> ColorOptions
      [] s = CutoffItem -> CutoffOptions
      [] s = HwItem(1) -> HwOptions
      [] OTHER -> 0

\* Items of a Menu; n is the length of the list the driver returned last.
Items(m, n) ==
    CASE m = Root -> <<Hw, Anims, Internal>>
      [] m = Hw -> [k \in 1..n |-> HwItem(k)]
      [] m = Anims -> [i \in 1..NumImages |-> Img(i)]
      [] m = Internal -> <<BlankAct, SkipItem, ColorItem, CutoffItem>>
      [] OTHER -> <<StaticAct(m[2]), SlideAct(m[2]), PeekAct(m[2])>>

IsMenu(n) == n \in MenuNodes
IsSetting(n) == n \in SettingNodes

\* int length of the focused node's list, and Len() (uint8).
Count(S, n) == IF IsMenu(n) THEN Len(Items(n, S.hwLen)) ELSE NumOptions(n)
NodeLen(S, n) == U8(Count(S, n))

\* --------------------------------------------------------------- state

VARIABLES
    statusState,          \* "boot" | "idle" | "menu" | "blank"
    sinceChange,          \* seconds since statusStateChange, saturating
    activeMenu,           \* the focused node, or Nil
    selected,             \* Menuables -> uint8
    top,                  \* Menuables -> uint8
    prev,                 \* Menuables -> Menuables or Nil
    active,               \* SettingNodes -> uint8 (Active)
    hwLen,                \* length of Hw.Items
    tick,                 \* uint32
    statusForceUpdate,
    faceState,            \* "busy" | "default" | "animation"
    activeAnim,           \* <<kind, image>>
    statusFrameSkip,
    statusDownmixChannel,
    statusDownmixCutoff,
    boopDist,             \* cached sensor values
    accel,                \* aX, aY, aZ
    peek,                 \* the Peek animation instance (y, next, moveUp)
    blinker,              \* "low" | "high"
    halted,               \* inside the loop of Gotogen.panic
    pressed,              \* what PressedButton() returned in the last tick
    focusAt,              \* activeMenu at the moment it returned
    calls,                \* driver calls and callbacks of the last tick:
                          \* <<item, arg>>
    previewLog,           \* the conditions under which the last tick copied
                          \* face pixels to the status surface
    age,                  \* seconds since statusStateChange when the last
                          \* tick began
    steps,                \* what the last tick did, in order
    drawn,                \* the DrawFrame call of the last tick
    faceErr,              \* Display() of the face surface fails in this tick
    statusErr,            \* Display() of the status surface fails
    sensed,               \* what the two sensors answered in the last tick
    failed,               \* a Display() call of the last tick returned an error
    crashed,              \* a run-time panic (index out of range, nil)
    mirror,               \* a Mirror and the physical surface under it
    pixel,                \* one Gotogen.SetPixel call and its downmix
    fps,                  \* tick, lastTicks, lastFPS and the clock of lastSec
    rgb,                  \* an RGB565 value and what RGBA() made of it
    canvas,               \* a Peek instance and the surface it draws on
    preview,              \* the two surfaces Init was given and the
                          \* status pixels one SetPixel call wrote
    life                  \* whether New made the controller, g.init, what
                          \* the last call of New, Init or RunTick
                          \* returned, where Init stopped, and the call
                          \* before the last tick

ctlVars == <<statusState, sinceChange, activeMenu, selected, top, prev, active,
             hwLen, tick, statusForceUpdate, faceState, activeAnim,
             statusFrameSkip, statusDownmixChannel, statusDownmixCutoff,
             boopDist, accel, peek, blinker, halted,
             pressed, focusAt, calls, previewLog, age, steps, drawn,
             faceErr, statusErr, sensed, failed, crashed>>

vars == <<ctlVars, mirror, pixel, fps, rgb, canvas, preview, life>>

\* The controller as one record.
Ctl ==
    [statusState |-> statusState, sinceChange |-> sinceChange,
     activeMenu |-> activeMenu, selected |-> selected, top |-> top,
     prev |-> prev, active |-> active, hwLen |-> hwLen, tick |-> tick,
     statusForceUpdate |-> statusForceUpdate, faceState |-> faceState,
     activeAnim |-> activeAnim, statusFrameSkip |-> statusFrameSkip,
     statusDownmixChannel |-> statusDownmixChannel,
     statusDownmixCutoff |-> statusDownmixCutoff,
     boopDist |-> boopDist, accel |-> accel, peek |-> peek,
     blinker |-> blinker, halted |-> halted,
     pressed |-> pressed, focusAt |-> focusAt,
     calls |-> calls, previewLog |-> previewLog, age |-> age,
     steps |-> steps, drawn |-> drawn, faceErr |-> faceErr,
     statusErr |-> statusErr, sensed |-> sensed, failed |-> failed,
     crashed |-> crashed]

FaceAnim == <<"face", 0>>
BusyAnim == <<"static", 0>>

\* No Peek was created yet.
NoPeek == [y |-> 0, next |-> 0, moveUp |-> FALSE, gen |-> 0,
           shown |-> FALSE, held |-> 0, fin |-> FALSE]

\* SensorStatus, and what a sensor answers: <<status, value>>.
SensorStatuses == {"unavailable", "available", "busy"}
NoReading == <<"unavailable", 0>>

\* No DrawFrame call was made.
NoDraw == [anim |-> Nil, gen |-> 0, cont |-> TRUE, wrote |-> FALSE]

\* Before New: no controller.  After New and a successful Init.
NoArgs == <<0, "nil", "nil">>
GoodArgs == <<Framerate, "display", "driver">>
NoController ==
    [made |-> FALSE, init |-> FALSE, op |-> "none", ret |-> "none",
     stop |-> "none", args |-> NoArgs, prior |-> "none"]
Initialized ==
    [made |-> TRUE, init |-> TRUE, op |-> "Init", ret |-> "nil",
     stop |-> "done", args |-> GoodArgs, prior |-> "none"]

\* The controller after New and a successful Init.
CtlInit ==
    /\ life = Initialized
    /\ statusState = "boot"
    /\ sinceChange = 0
    /\ activeMenu = Nil
    /\ selected = [n \in Menuables |-> 0]
    /\ top = [n \in Menuables |-> 0]
    /\ prev = [n \in Menuables |-> Nil]
    /\ active = [s \in SettingNodes |->
                   CASE s = SkipItem -> SkipActive0
                     [] s = ColorItem -> ColorActive0
                     [] s = CutoffItem -> CutoffActive0
                     [] OTHER -> 0]
    /\ hwLen = 0
    /\ tick = 0
    /\ statusForceUpdate = FALSE
    /\ faceState = "busy"
    /\ activeAnim = BusyAnim
    /\ statusFrameSkip = 0
    /\ statusDownmixChannel = colorChannelRed
    /\ statusDownmixCutoff = 160
    /\ boopDist = 0
    /\ accel = 0
    /\ peek = NoPeek
    /\ blinker = "low"
    /\ halted = FALSE
    /\ pressed = "unpolled"
    /\ focusAt = Nil
    /\ calls = << >>
    /\ previewLog = {}
    /\ age = 0
    /\ steps = << >>
    /\ drawn = NoDraw
    /\ faceErr = FALSE
    /\ statusErr = FALSE
    /\ sensed = <<NoReading, NoReading>>
    /\ failed = FALSE
    /\ crashed = FALSE

\* One more entry in the record of the tick.
Step(S, l) == [S EXCEPT !.steps = Append(@, l)]

\* ------------------------------------------------- face pixel writes

\* "tick mod skip = 0", or no skipping at all.
SkipPermits(S) ==
    S.statusFrameSkip = 0 \/ S.tick % S.statusFrameSkip = 0

\* The condition of Gotogen.SetPixel under which the pixel is also written,
\* downmixed, to the status surface.  canPx is what
\* statusDisplay.CanUpdateNow() answers at that moment.  Go's && binds
\* tighter than ||.
SetPixelGate(S, canPx) ==
    \/ S.statusForceUpdate
    \/ /\ S.statusState = "idle"
       /\ \/ S.statusFrameSkip = 0
          \/ /\ U8(S.tick) % S.statusFrameSkip = 0
             /\ canPx

\* Some pixels are written through Gotogen.SetPixel: previewLog records the
\* circumstances of every copy to the status surface.
SetPixels(S, canPx) ==
    IF SetPixelGate(S, canPx)
    THEN [S EXCEPT !.previewLog = @ \cup
            {[state |-> S.statusState, can |-> canPx,
              skipOk |-> SkipPermits(S), force |-> S.statusForceUpdate]}]
    ELSE S

\* Peek's Activate: a new instance (New) starts above the surface.
PeekActivateOf(p, H) ==
    [y |-> -H, next |-> 0, moveUp |-> FALSE, gen |-> p.gen + 1,
     shown |-> FALSE, held |-> 0, fin |-> FALSE]
\* Activate of the images of the menu.
PeekActivate(p) == PeekActivateOf(p, ImgRows)

\* Activate of each animation: Static draws its image, Peek and Face blank
\* the surface, Slide writes nothing.
Activate(S, anim, canPx) ==
    LET S1 == IF anim[1] = "peek"
              THEN [S EXCEPT !.peek = PeekActivate(@)] ELSE S
    IN  IF anim[1] \in {"static", "peek", "face"}
        THEN SetPixels(S1, canPx) ELSE S1

\* The return to Face that forgets the face state.
SwitchToFace_KeepFaceState(S, canPx) ==
    [Activate([S EXCEPT !.statusForceUpdate = TRUE], FaceAnim, canPx)
       EXCEPT !.activeAnim = FaceAnim]

\* f.Activate(g); g.activeAnim = f, with the two assignments before them.
SwitchToFace(S, canPx) ==
    [Activate([S EXCEPT !.faceState = "default", !.statusForceUpdate = TRUE],
              FaceAnim, canPx)
       EXCEPT !.activeAnim = FaceAnim]

\* startAnimation
startAnimation(S, anim, canPx) ==
    [Activate([S EXCEPT !.faceState = "animation"], anim, canPx)
       EXCEPT !.activeAnim = anim]

\* ------------------------------------------------------ status states

\* clearStatusScreen blanks the text buffer and every pixel of the status
\* surface and presents it; the error of that Display() is dropped.
clearStatusScreen(S) ==
    [Step(S, "clearStatus") EXCEPT !.failed = @ \/ S.statusErr]

\* drawIdleStatus writes the status lines to the text buffer.
drawIdleStatus(S) == Step(S, "idleStatus")

\* The call g.driver.MenuItems() in the record of the driver calls of a
\* tick; its argument there is the length of the list it returned.
MenuItemsCall == <<"MenuItems", 0>>

\* The list MenuItems() returns when it returns n items.
Returned(n) == [k \in 1..n |-> HwItem(k)]

\* changeStatusState without "g.activeMenu = nil".
changeStatusState_KeepCursor(S, state, n) ==
    LET S1 == clearStatusScreen([S EXCEPT !.statusState = state,
                                          !.sinceChange = 0])
    IN  CASE state = "menu" ->
               Step([S1 EXCEPT !.calls = Append(@, <<MenuItemsCall, n>>),
                                    !.hwLen = n, !.activeMenu = Root],
                    "render")
          [] state = "idle" -> drawIdleStatus(S1)
          [] OTHER -> S1

\* changeStatusState that asks the driver and keeps the old hardware menu.
changeStatusState_KeepItems(S, state, n) ==
    LET S1 == clearStatusScreen([S EXCEPT !.activeMenu = Nil,
                                          !.statusState = state,
                                          !.sinceChange = 0])
    IN  CASE state = "menu" ->
               [S1 EXCEPT !.calls = Append(@, <<MenuItemsCall, n>>),
                          !.activeMenu = Root]
          [] state = "idle" -> drawIdleStatus(S1)
          [] OTHER -> S1

\* changeStatusState; n is the length of the list MenuItems() returns.
changeStatusState(S, state, n) ==
    LET S1 == clearStatusScreen([S EXCEPT !.activeMenu = Nil,
                                          !.statusState = state,
                                          !.sinceChange = 0])
    IN  CASE state = "menu" ->
               Step([S1 EXCEPT !.calls = Append(@, <<MenuItemsCall, n>>),
                                    !.hwLen = n, !.activeMenu = Root],
                    "render")
          [] state = "idle" -> drawIdleStatus(S1)
          [] OTHER -> S1

\* The Apply callbacks of the built-in settings; a driver's Apply is opaque.
\* An Apply that takes the option's index for the divisor.
setStatusFrameSkip_Index(S, sel) ==
    [S EXCEPT !.statusFrameSkip = sel]

setStatusFrameSkip(S, sel) ==
    [S EXCEPT !.statusFrameSkip = IF sel = 0 THEN 0 ELSE U8(2 ^ (sel - 1))]

setStatusDuplicateColor(S, sel) ==
    [S EXCEPT !.statusDownmixChannel = sel]

setStatusDuplicateCutoff(S, sel) ==
    [S EXCEPT !.statusDownmixCutoff = U8((sel + 1) * 16)]

Apply(S, item, sel) ==
    LET S1 == [S EXCEPT !.calls = Append(@, <<item, sel>>)]
    IN  CASE item = SkipItem -> setStatusFrameSkip(S1, sel)
          [] item = ColorItem -> setStatusDuplicateColor(S1, sel)
          [] item = CutoffItem -> setStatusDuplicateCutoff(S1, sel)
          [] OTHER -> S1

\* Invoke followed by a return of the cursor to the first row.
Invoke_ResetCursor(S, item, canPx) ==
    LET S1 == [S EXCEPT !.calls = Append(@, <<item, -1>>),
                        !.selected[S.activeMenu] = 0]
    IN  CASE item = BlankAct -> changeStatusState(S1, "blank", 0)
          [] item[1] \in {"static", "slide", "peek"} ->
               startAnimation(S1, item, canPx)
          [] OTHER -> S1

\* The Invoke callbacks of the ActionItems; a driver's Invoke is opaque.
Invoke(S, item, canPx) ==
    LET S1 == [S EXCEPT !.calls = Append(@, <<item, -1>>)]
    IN  CASE item = BlankAct -> changeStatusState(S1, "blank", 0)
          [] item[1] \in {"static", "slide", "peek"} ->
               startAnimation(S1, item, canPx)
          [] OTHER -> S1

\* A run-time panic stops the program where it is.
Panic(S) == [S EXCEPT !.crashed = TRUE]

\* Back that confirms the cursor of a SettingItem on its way out.
MenuBack_Commit(S) ==
    LET m == S.activeMenu
        S1 == [S EXCEPT !.sinceChange = 0]
    IN  IF m = Nil THEN Panic(S1)
        ELSE IF S.prev[m] = Nil
        THEN changeStatusState(S1, "idle", 0)
        ELSE LET S2 == IF IsSetting(m)
                       THEN Apply([S1 EXCEPT !.active[m] = S.selected[m]],
                                  m, S.selected[m])
                       ELSE S1
             IN  Step([S2 EXCEPT !.activeMenu = S.prev[m], !.prev[m] = Nil],
                      "render")

\* case MenuButtonBack
MenuBack(S) ==
    LET m == S.activeMenu
        S1 == [S EXCEPT !.sinceChange = 0]
    IN  IF m = Nil THEN Panic(S1)
        ELSE IF S.prev[m] = Nil
        THEN changeStatusState(S1, "idle", 0)
        ELSE Step([S1 EXCEPT !.activeMenu = S.prev[m], !.prev[m] = Nil],
                  "render")

\* The guard without its "Len() == 0" half.
SelectGuard_NoEmptyCheck(S, m) ==
    S.selected[m] > Count(S, m)

\* The guard "in case a menu is empty for some reason".
SelectGuard(S, m) ==
    Count(S, m) = 0 \/ S.selected[m] > Count(S, m)

\* Select on a row that is a SettingItem.
EnterSetting(S, item) ==
    LET S1 == [S EXCEPT !.prev[item] = S.activeMenu, !.activeMenu = item,
                        !.selected[item] = S.active[item]]
    IN  Step(IF S1.selected[item] > U8(S1.top[item] + U8(TextRows) - 2)
             THEN [S1 EXCEPT !.top[item] = S1.selected[item]]
             ELSE S1,
             "render")

\* Select on a Menu that focuses a submenu without recording where the
\* focus came from.
SelectOnMenu_NoBackRef(S, m, canPx) ==
    IF SelectGuard(S, m) THEN S
    ELSE IF S.selected[m] >= Count(S, m) THEN Panic(S)
    ELSE LET item == Items(m, S.hwLen)[S.selected[m] + 1]
         IN  CASE IsMenu(item) ->
                    Step([S EXCEPT !.activeMenu = item], "render")
               [] IsSetting(item) -> EnterSetting(S, item)
               [] OTHER -> Invoke(S, item, canPx)

\* case *Menu of MenuButtonMenu
SelectOnMenu(S, m, canPx) ==
    IF SelectGuard(S, m) THEN S
    ELSE IF S.selected[m] >= Count(S, m) THEN Panic(S)
    ELSE LET item == Items(m, S.hwLen)[S.selected[m] + 1]
         IN  CASE IsMenu(item) ->
                    Step([S EXCEPT !.prev[item] = S.activeMenu,
                                   !.activeMenu = item], "render")
               [] IsSetting(item) -> EnterSetting(S, item)
               [] OTHER -> Invoke(S, item, canPx)

\* Select on a focused SettingItem that applies the old Active and does
\* not commit the cursor.
SelectOnSetting_NoCommit(S, a) ==
    LET S1 == Apply(S, a, S.active[a])
    IN  Step([S1 EXCEPT !.activeMenu = S1.prev[a], !.prev[a] = Nil],
             "render")

\* Select on a focused SettingItem that applies the cursor and leaves
\* Active as it was.
SelectOnSetting_KeepActive(S, a) ==
    LET S1 == Apply(S, a, S.selected[a])
    IN  Step([S1 EXCEPT !.activeMenu = S1.prev[a], !.prev[a] = Nil],
             "render")

\* case *SettingItem of MenuButtonMenu
SelectOnSetting(S, a) ==
    LET S1 == Apply([S EXCEPT !.active[a] = S.selected[a]], a, S.selected[a])
    IN  Step([S1 EXCEPT !.activeMenu = S1.prev[a], !.prev[a] = Nil],
             "render")

\* case MenuButtonMenu
MenuSelect(S, canPx) ==
    LET m == S.activeMenu
        S1 == [S EXCEPT !.sinceChange = 0]
    IN  CASE IsMenu(m) -> SelectOnMenu(S1, m, canPx)
          [] IsSetting(m) -> SelectOnSetting(S1, m)
          [] OTHER -> S1

\* case MenuButtonUp
MenuUp(S) ==
    LET m == S.activeMenu
        S1 == [S EXCEPT !.sinceChange = 0]
    IN  IF m = Nil THEN Panic(S1)
        ELSE LET S2 == IF S1.selected[m] > 0
                       THEN [S1 EXCEPT !.selected[m] = @ - 1] ELSE S1
             IN  Step(IF S2.selected[m] < S2.top[m]
                      THEN [S2 EXCEPT !.top[m] = S2.selected[m]] ELSE S2,
                      "render")

\* Down that leaves statusStateChange alone.
MenuDown_NoRestart(S) ==
    LET m == S.activeMenu
    IN  IF m = Nil THEN Panic(S)
        ELSE LET S2 == [S EXCEPT !.selected[m] = U8(@ + 1)]
                 S3 == IF S2.selected[m] > U8(NodeLen(S2, m) - 1)
                       THEN [S2 EXCEPT !.selected[m] = U8(NodeLen(S2, m) - 1)]
                       ELSE S2
             IN  Step(IF S3.selected[m] > U8(S3.top[m] + U8(TextRows) - 2)
                      THEN [S3 EXCEPT !.top[m] = U8(@ + 1)] ELSE S3,
                      "render")

\* case MenuButtonDown
MenuDown(S) ==
    LET m == S.activeMenu
        S1 == [S EXCEPT !.sinceChange = 0]
    IN  IF m = Nil THEN Panic(S1)
        ELSE LET S2 == [S1 EXCEPT !.selected[m] = U8(@ + 1)]
                 S3 == IF S2.selected[m] > U8(NodeLen(S2, m) - 1)
                       THEN [S2 EXCEPT !.selected[m] = U8(NodeLen(S2, m) - 1)]
                       ELSE S2
             IN  Step(IF S3.selected[m] > U8(S3.top[m] + U8(TextRows) - 2)
                      THEN [S3 EXCEPT !.top[m] = U8(@ + 1)] ELSE S3,
                      "render")

Buttons == {"none", "menu", "back", "up", "down", "default"}

\* The timeout that fires already at menuTimeout.
TimedOut_AtTimeout(S) == S.sinceChange >= menuTimeout

\* time.Now().After(g.statusStateChange.Add(menuTimeout))
TimedOut(S) == S.sinceChange > menuTimeout

\* updateStatus.  but is what PressedButton() returns when it is polled,
\* n the length of the list MenuItems() returns when it is asked,
\* updateIdleStatus the canRedrawStatus of RunTick.
updateStatus(S, but, n, canPx, updateIdleStatus) ==
    LET P == [Step(S, "poll") EXCEPT !.pressed = but,
                                     !.focusAt = S.activeMenu]
    IN  CASE S.statusState = "boot" ->
               IF TimedOut(S)
               THEN changeStatusState(S, "idle", 0)
               ELSE IF but # "none"
               THEN changeStatusState(P, "idle", 0) ELSE P
          [] S.statusState = "idle" ->
               CASE but = "back" ->
                      IF P.faceState # "default"
                      THEN SwitchToFace(P, canPx) ELSE P
                 [] but = "menu" -> changeStatusState(P, "menu", n)
                 [] OTHER -> IF updateIdleStatus THEN drawIdleStatus(P) ELSE P
          [] S.statusState = "menu" ->
               IF TimedOut(S)
               THEN changeStatusState(S, "idle", 0)
               ELSE CASE but = "back" -> MenuBack(P)
                      [] but = "menu" -> MenuSelect(P, canPx)
                      [] but = "up" -> MenuUp(P)
                      [] but = "down" -> MenuDown(P)
                      [] OTHER -> P
          [] S.statusState = "blank" ->
               IF but # "none" THEN changeStatusState(P, "idle", 0) ELSE P

\* ---------------------------------------------------------- animations

Min(a, b) == IF a < b THEN a ELSE b

\* Peek's DrawFrame without the dwell: 100 ms after the image is fully
\* shown it moves up again.
PeekDrawFrame_NoDwell(p, el) ==
    LET w == [p EXCEPT !.held = IF p.moveUp /\ p.y = 0
                                THEN Min(@ + el, PeekDwell) ELSE @]
        y1 == IF p.moveUp THEN p.y - 1 ELSE p.y + 1
        drew == (p.moveUp /\ p.y + ImgRows - 1 >= 0) \/ y1 > -ImgRows
    IN  IF el < p.next
        THEN [peek |-> [w EXCEPT !.next = @ - el],
              drew |-> FALSE, cont |-> TRUE]
        ELSE IF y1 < -ImgRows
        THEN [peek |-> [w EXCEPT !.y = y1, !.fin = TRUE],
              drew |-> drew, cont |-> FALSE]
        ELSE [peek |-> [w EXCEPT !.y = y1, !.next = PeekDelay,
                                 !.moveUp = @ \/ y1 >= 0,
                                 !.shown = @ \/ y1 >= 0],
              drew |-> drew, cont |-> TRUE]

\* Peek's DrawFrame, el tenths of a second after the previous tick: the
\* instance after the call, whether the call wrote pixels, and what it
\* returned.  held is the time spent at y = 0 so far.
PeekDrawFrameOf(p, el, H) ==
    LET w == [p EXCEPT !.held = IF p.moveUp /\ p.y = 0
                                THEN Min(@ + el, PeekDwell) ELSE @]
        y1 == IF p.moveUp THEN p.y - 1 ELSE p.y + 1
        drew == (p.moveUp /\ p.y + H - 1 >= 0) \/ y1 > -H
    IN  IF el < p.next
        THEN [peek |-> [w EXCEPT !.next = @ - el],
              drew |-> FALSE, cont |-> TRUE]
        ELSE IF y1 >= 0
        THEN [peek |-> [w EXCEPT !.y = y1, !.next = PeekDwell,
                                 !.moveUp = TRUE, !.shown = TRUE],
              drew |-> drew, cont |-> TRUE]
        ELSE IF y1 < -H
        THEN [peek |-> [w EXCEPT !.y = y1, !.fin = TRUE],
              drew |-> drew, cont |-> FALSE]
        ELSE [peek |-> [w EXCEPT !.y = y1, !.next = PeekDelay],
              drew |-> drew, cont |-> TRUE]

\* DrawFrame of the images of the menu.
PeekDrawFrame(p, el) == PeekDrawFrameOf(p, el, ImgRows)

\* DrawFrame in which Slide ends when it has drawn its frame.
DrawFrame_SlideEnds(anim, p, el) ==
    CASE anim[1] = "static" -> [peek |-> p, drew |-> FALSE, cont |-> TRUE]
      [] anim[1] = "peek" -> PeekDrawFrame(p, el)
      [] anim[1] = "slide" -> [peek |-> p, drew |-> TRUE, cont |-> FALSE]
      [] OTHER -> [peek |-> p, drew |-> TRUE, cont |-> TRUE]

\* DrawFrame of the active animation: Static draws nothing, Slide and Face
\* draw every frame, and only Peek ever returns false.
DrawFrame(anim, p, el) ==
    CASE anim[1] = "static" -> [peek |-> p, drew |-> FALSE, cont |-> TRUE]
      [] anim[1] = "peek" -> PeekDrawFrame(p, el)
      [] OTHER -> [peek |-> p, drew |-> TRUE, cont |-> TRUE]

\* The part of RunTick that advances the animation.
AdvanceAnimation(S, el, canPx) ==
    LET d == DrawFrame(S.activeAnim, S.peek, el)
        S1 == [Step(S, "drawFrame") EXCEPT
                 !.peek = d.peek,
                 !.drawn = [anim |-> S.activeAnim,
                            gen |-> IF S.activeAnim[1] = "peek"
                                    THEN S.peek.gen ELSE 0,
                            cont |-> d.cont, wrote |-> d.drew]]
        S2 == IF d.drew THEN SetPixels(S1, canPx) ELSE S1
    IN  IF d.cont THEN S2 ELSE SwitchToFace(S2, canPx)

\* Gotogen.panic: the loop that blinks and never returns.
Halt(S) == [S EXCEPT !.halted = TRUE]

\* blinkerOn, the last statement of a tick that returns.
BlinkerOn(S) == [Step(S, "blinkerOn") EXCEPT !.blinker = "high"]

\* The end of a tick that presents the status text whenever the state is
\* not Blank.
Present_NotBlank(S, canRedrawStatus) ==
    LET S1 == [Step(S, "faceDisplay") EXCEPT !.failed = @ \/ S.faceErr]
        S2 == [Step(S1, "statusDisplay") EXCEPT !.failed = @ \/ S.statusErr]
    IN  IF S.faceErr THEN Halt(S1)
        ELSE IF S1.statusState # "blank"
        THEN IF S.statusErr THEN Halt(S2) ELSE BlinkerOn(S2)
        ELSE BlinkerOn(S1)

\* The end of RunTick: the face surface is presented, then the status text
\* unless the state is Blank or canRedrawStatus is false.
Present(S, canRedrawStatus) ==
    LET S1 == [Step(S, "faceDisplay") EXCEPT !.failed = @ \/ S.faceErr]
        S2 == [Step(S1, "statusDisplay") EXCEPT !.failed = @ \/ S.statusErr]
    IN  IF S.faceErr THEN Halt(S1)
        ELSE IF S1.statusState # "blank" /\ canRedrawStatus
        THEN IF S.statusErr THEN Halt(S2) ELSE BlinkerOn(S2)
        ELSE BlinkerOn(S1)

\* The sensor reads of RunTick: boop, then the accelerometer.
ReadSensors(S, boop, acc) ==
    LET S1 == [Step(S, "boop") EXCEPT !.sensed = <<boop, acc>>]
        S2 == IF boop[1] = "available"
              THEN [S1 EXCEPT !.boopDist = boop[2]] ELSE S1
        S3 == Step(S2, "accel")
    IN  IF acc[1] = "available" THEN [S3 EXCEPT !.accel = acc[2]] ELSE S3

\* a / b of Go's int32: the quotient truncated toward zero.
Quo(a, b) == IF a >= 0 THEN a \div b ELSE -((-a) \div b)

\* The sensor reads of RunTick in the revision of gotogen.go, which scales
\* an available accelerometer value before it caches it.
ReadSensorsScaled(S, boop, acc) ==
    LET S1 == [Step(S, "boop") EXCEPT !.sensed = <<boop, acc>>]
        S2 == IF boop[1] = "available"
              THEN [S1 EXCEPT !.boopDist = boop[2]] ELSE S1
        S3 == Step(S2, "accel")
    IN  IF acc[1] = "available"
        THEN [S3 EXCEPT !.accel = Quo(acc[2], 1000)] ELSE S3

\* canRedrawStatus; can is what statusDisplay.CanUpdateNow() answers.
canRedrawStatus(S, can) ==
    IF S.statusFrameSkip > 0
    THEN can /\ U8(S.tick) % S.statusFrameSkip = 0
    ELSE can

\* Seconds that pass between two ticks.
DtChoices == {0, 4, 6}

Later(t, dt) == IF t + dt > menuTimeout THEN menuTimeout + 1 ELSE t + dt

\* RunTick, as a function of the controller and of what its collaborators
\* answer during the tick (e).  The guard of the action keeps tick far
\* below the 32-bit wrap.  The step "statusBusy" records that the status
\* display answered false to CanUpdateNow(), "canRedraw" that
\* canRedrawStatus is true, "render" a Render of the focused node.
RunTickFn(S, e) ==
    LET S0 == [S EXCEPT !.blinker = "low",
                        !.steps = <<"blinkerOff", "tick">>,
                        !.tick = @ + 1,
                        !.statusForceUpdate = FALSE,
                        !.sinceChange = Later(@, e.dt),
                        !.age = Later(S.sinceChange, e.dt),
                        !.pressed = "unpolled", !.focusAt = Nil,
                        !.calls = << >>,
                        !.previewLog = {},
                        !.drawn = NoDraw,
                        !.faceErr = e.faceErr, !.statusErr = e.statusErr,
                        !.failed = FALSE]
        S1 == IF S0.faceState = "busy"
              THEN [Activate([S0 EXCEPT !.faceState = "default"],
                             FaceAnim, e.canPx)
                      EXCEPT !.activeAnim = FaceAnim]
              ELSE S0
        S2 == ReadSensors(S1, e.boop, e.acc)
        upd == canRedrawStatus(S2, e.can)
        asked == IF e.can THEN S2 ELSE Step(S2, "statusBusy")
        S3 == updateStatus(IF upd THEN Step(asked, "canRedraw") ELSE asked,
                           e.but, e.n, e.canPx, upd)
    IN  IF S3.crashed THEN S3
        ELSE Present(AdvanceAnimation(S3, e.el, e.canPx), upd)

\* What the collaborators can answer in a tick, left out where the code
\* does not ask: the clock is read in Boot and Menu and by Peek,
\* MenuItems() is called when Idle opens the menu, SetPixel asks
\* CanUpdateNow() only when frames are skipped.
DtInputs ==
    IF statusState \in {"boot", "menu"} \/ activeAnim[1] = "peek"
    THEN DtChoices ELSE {0}
ItemInputs(but, Lens) ==
    IF statusState = "idle" /\ but = "menu" THEN Lens ELSE {0}
PeekInputs(dt) ==
    IF dt > 0 THEN {10 * dt}
    ELSE IF activeAnim[1] = "peek" THEN {0, PeekDelay} ELSE {0}
PxInputs(can) ==
    IF statusFrameSkip > 0 THEN BOOLEAN ELSE {can}

\* One tick, in an environment whose status display answers CanUpdateNow()
\* from Cans, whose driver returns menus of the lengths Lens, whose sensors
\* answer from Boops and Accs and whose displays fail to present as
\* FaceErrs and StatusErrs say.
Tick(bound, Cans, Lens, Boops, Accs, FaceErrs, StatusErrs) ==
    /\ life.init
    /\ ~crashed /\ ~halted
    /\ tick < bound
    /\ \E dt \in DtInputs, but \in Buttons, can \in Cans :
       \E n \in ItemInputs(but, Lens), el \in PeekInputs(dt),
          canPx \in PxInputs(can) :
       \E boop \in Boops, acc \in Accs, fe \in FaceErrs, se \in StatusErrs :
         \E R \in {RunTickFn(Ctl, [dt |-> dt, but |-> but, can |-> can,
                                    n |-> n, el |-> el, canPx |-> canPx,
                                    boop |-> boop, acc |-> acc,
                                    faceErr |-> fe, statusErr |-> se])} :
             /\ statusState' = R.statusState
             /\ sinceChange' = R.sinceChange
             /\ activeMenu' = R.activeMenu
             /\ selected' = R.selected
             /\ top' = R.top
             /\ prev' = R.prev
             /\ active' = R.active
             /\ hwLen' = R.hwLen
             /\ tick' = R.tick
             /\ statusForceUpdate' = R.statusForceUpdate
             /\ faceState' = R.faceState
             /\ activeAnim' = R.activeAnim
             /\ statusFrameSkip' = R.statusFrameSkip
             /\ statusDownmixChannel' = R.statusDownmixChannel
             /\ statusDownmixCutoff' = R.statusDownmixCutoff
             /\ boopDist' = R.boopDist
             /\ accel' = R.accel
             /\ peek' = R.peek
             /\ blinker' = R.blinker
             /\ halted' = R.halted
             /\ pressed' = R.pressed
             /\ focusAt' = R.focusAt
             /\ calls' = R.calls
             /\ previewLog' = R.previewLog
             /\ age' = R.age
             /\ steps' = R.steps
             /\ drawn' = R.drawn
             /\ faceErr' = R.faceErr
             /\ statusErr' = R.statusErr
             /\ sensed' = R.sensed
             /\ failed' = R.failed
             /\ crashed' = R.crashed
             /\ life' = [life EXCEPT
                           !.op = "RunTick", !.prior = life.op,
                           !.ret = IF R.halted \/ R.crashed
                                   THEN "none" ELSE "nil"]
    /\ UNCHANGED <<mirror, pixel, fps, rgb, canvas, preview>>

\* RunTick with working displays and without sensors.
RunTick ==
    Tick(MaxTicks, BOOLEAN, 0..MaxHwItems, {NoReading}, {NoReading},
         {FALSE}, {FALSE})

\* Ticks of a controller that plays animations: the driver has no menu of
\* its own and the status display always takes a frame.
AnimTick ==
    Tick(MaxAnimTicks, {TRUE}, {0}, {NoReading}, {NoReading},
         {FALSE}, {FALSE})

\* What the sensors answer.
Readings ==
    {<<"available", 1>>, <<"available", 2>>, <<"busy", 3>>,
     <<"unavailable", 3>>}

\* Ticks with sensors.
SensorTick ==
    Tick(MaxSensorTicks, {TRUE}, {0}, Readings, Readings, {FALSE}, {FALSE})

\* What an accelerometer that reports in thousandths can answer.
RawReadings ==
    {<<"available", 1500>>, <<"available", -1500>>, <<"available", 0>>,
     <<"busy", 7>>, <<"unavailable", 7>>}

\* The start of a tick of the revision of gotogen.go, up to its sensor
\* reads; the cached sensor values are written nowhere else.
ScaledSensorTick ==
    /\ ~crashed /\ ~halted
    /\ tick < MaxSensorTicks
    /\ \E boop \in Readings, acc \in RawReadings :
       \E R \in {ReadSensorsScaled(
                    [Ctl EXCEPT !.blinker = "low",
                                !.steps = <<"blinkerOff", "tick">>,
                                !.tick = @ + 1],
                    boop, acc)} :
           /\ blinker' = R.blinker
           /\ steps' = R.steps
           /\ tick' = R.tick
           /\ boopDist' = R.boopDist
           /\ accel' = R.accel
           /\ sensed' = R.sensed
    /\ UNCHANGED <<statusState, sinceChange, activeMenu, selected, top, prev,
                   active, hwLen, statusForceUpdate, faceState, activeAnim,
                   statusFrameSkip, statusDownmixChannel,
                   statusDownmixCutoff, peek, halted, pressed, focusAt,
                   calls, previewLog, age, drawn, faceErr, statusErr,
                   failed, crashed, mirror, pixel, fps, rgb, canvas,
                   preview, life>>

\* Ticks with displays that can fail to present.
FaultTick ==
    Tick(MaxFaultTicks, BOOLEAN, {0}, {NoReading}, {NoReading},
         BOOLEAN, BOOLEAN)

\* Gotogen.panic's loop: blink() forever.
Blink ==
    /\ halted
    /\ blinker' = IF blinker = "low" THEN "high" ELSE "low"
    /\ UNCHANGED <<statusState, sinceChange, activeMenu, selected, top, prev,
                   active, hwLen, tick, statusForceUpdate, faceState,
                   activeAnim, statusFrameSkip, statusDownmixChannel,
                   statusDownmixCutoff, boopDist, accel, peek, halted,
                   pressed, focusAt, calls, previewLog, age, steps, drawn,
                   faceErr, statusErr, sensed, failed, crashed, mirror,
                   pixel, fps, rgb, canvas, preview, life>>

\* ---------------------------------------------------------- the Mirror

NoCall == [x |-> -1, y |-> -1, c |-> 0]

\* mirror.New over a physical surface of realW x realH untouched pixels.
MirrorNew(realW, realH) ==
    [realW |-> realW, w |-> realW \div 2, h |-> realH,
     px |-> [q \in (0..realW - 1) \X (0..realH - 1) |-> 0],
     last |-> NoCall, writes |-> 0]

\* SetPixel that flips about the logical width instead of the physical.
MirrorSetPixel_FlipLogical(m, x, y, c) ==
    [m EXCEPT !.px = [[@ EXCEPT ![<<x, y>>] = c]
                        EXCEPT ![<<m.w - x - 1, y>>] = c],
              !.last = [x |-> x, y |-> y, c |-> c],
              !.writes = @ + 1]

\* Mirror.SetPixel
MirrorSetPixel(m, x, y, c) ==
    [m EXCEPT !.px = [[@ EXCEPT ![<<x, y>>] = c]
                        EXCEPT ![<<m.realW - x - 1, y>>] = c],
              !.last = [x |-> x, y |-> y, c |-> c],
              !.writes = @ + 1]

NoMirror == MirrorNew(0, 0)

MirrorInit ==
    \E realW \in 1..MaxRealW, realH \in 1..MaxRealH :
       mirror = MirrorNew(realW, realH)

\* A caller draws one pixel inside the logical surface.
MirrorWrite ==
    /\ mirror.writes < MaxWrites
    /\ \E x \in 0..mirror.w - 1, y \in 0..mirror.h - 1, c \in 1..NumColors :
         mirror' = MirrorSetPixel(mirror, x, y, c)
    /\ UNCHANGED <<ctlVars, pixel, fps, rgb, canvas, preview, life>>

\* ----------------------------------------------------------- downmix

\* The downmix of the older revision (downmixForStatus), which keeps the
\* selected channel's intensity.
Downmix_KeepIntensity(channel, cutoff, c) ==
    CASE channel = colorChannelRed ->
           [R |-> IF c.R < cutoff THEN 0 ELSE c.R, G |-> 0, B |-> 0]
      [] channel = colorChannelGreen ->
           [R |-> 0, G |-> IF c.G < cutoff THEN 0 ELSE c.G, B |-> 0]
      [] channel = colorChannelBlue ->
           [R |-> 0, G |-> 0, B |-> IF c.B < cutoff THEN 0 ELSE c.B]
      [] OTHER -> c

\* The switch of Gotogen.SetPixel on statusDownmixChannel.
Downmix(channel, cutoff, c) ==
    CASE channel = colorChannelRed ->
           [R |-> IF c.R < cutoff THEN 0 ELSE 255, G |-> 0, B |-> 0]
      [] channel = colorChannelGreen ->
           [R |-> 0, G |-> IF c.G < cutoff THEN 0 ELSE 255, B |-> 0]
      [] channel = colorChannelBlue ->
           [R |-> 0, G |-> 0, B |-> IF c.B < cutoff THEN 0 ELSE 255]
      [] OTHER -> c

\* Channel intensities tried.
Intensities == {0, 80, 160, 240, 255}
Black == [R |-> 0, G |-> 0, B |-> 0]

NoPixel == [channel |-> 0, cutoff |-> 0, in |-> Black, out |-> Black,
            done |-> FALSE]

PixelInit ==
    \E ch \in colorChannelNone..colorChannelBlue, cut \in 0..255 :
       pixel = [NoPixel EXCEPT !.channel = ch, !.cutoff = cut]

\* One face pixel is written while the gate of Gotogen.SetPixel is open.
PixelWrite ==
    /\ ~pixel.done
    /\ \E r \in Intensities, g \in Intensities, b \in Intensities :
         LET c == [R |-> r, G |-> g, B |-> b]
         IN  pixel' = [pixel EXCEPT
                         !.in = c,
                         !.out = Downmix(pixel.channel, pixel.cutoff, c),
                         !.done = TRUE]
    /\ UNCHANGED <<ctlVars, mirror, fps, rgb, canvas, preview, life>>

\* ------------------------------------------------------ the FPS counter

\* A uint32 is kept as its two 16-bit halves <<high, low>>.
Half == 65536

\* g.tick++
Inc32(a) ==
    IF a[2] = Half - 1 THEN <<(a[1] + 1) % Half, 0>> ELSE <<a[1], a[2] + 1>>

\* Subtraction of low halves without the borrow.
Sub32_NoBorrow(a, b) ==
    <<(a[1] - b[1]) % Half, (a[2] - b[2]) % Half>>

\* g.tick - g.lastTicks, in uint32
Sub32(a, b) ==
    <<(a[1] - b[1] - (IF a[2] < b[2] THEN 1 ELSE 0)) % Half,
      (a[2] - b[2]) % Half>>

\* The counters of a controller whose last FPS computation, at tick t, was
\* since slots of 1/framerate second ago; n counts the ticks explored, run
\* the ticks since that computation.
FpsAt(t, since) ==
    [tick |-> t, lastTicks |-> t, lastFPS |-> <<0, 0>>, since |-> since,
     run |-> 0, ran |-> 0, n |-> 0, done |-> FALSE]

\* After Init: tick 0, and lastSec the zero time, more than a second ago.
NoFps == FpsAt(<<0, 0>>, Framerate)

\* After Init, or later in the run: just after an FPS computation at a tick
\* below a carry of the low half or below the 32-bit wrap.
FpsInit ==
    \/ fps = NoFps
    \/ \E t \in {<<0, Half - 2>>, <<Half - 1, Half - 2>>} : fps = FpsAt(t, 0)

\* The tick counter and the FPS computation of RunTick; gap is the time
\* since the previous tick in slots of 1/framerate second, at least one
\* when ticks run at most framerate times per second.
FpsTick ==
    /\ fps.n < MaxFpsTicks
    /\ \E gap \in {1, 2, Framerate} :
         LET t == Inc32(fps.tick)
             since == Min(fps.since + gap, Framerate)
         IN  fps' = IF since >= Framerate
                    THEN [tick |-> t, lastTicks |-> t,
                          lastFPS |-> Sub32(t, fps.lastTicks),
                          since |-> 0, run |-> 0, ran |-> fps.run + 1,
                          n |-> fps.n + 1, done |-> TRUE]
                    ELSE [fps EXCEPT !.tick = t, !.since = since,
                                     !.run = @ + 1, !.n = @ + 1,
                                     !.done = FALSE]
    /\ UNCHANGED <<ctlVars, mirror, pixel, rgb, canvas, preview, life>>

\* ------------------------------------------------------ New and Init

\* The Active indexes initMainMenu gives the settings.
Active0 ==
    [s \in SettingNodes |->
       CASE s = SkipItem -> SkipActive0
         [] s = ColorItem -> ColorActive0
         [] s = CutoffItem -> CutoffActive0
         [] OTHER -> 0]

\* The checks of a New that accepts a nil driver.
NewFails_NoDriver(framerate, status, driver) ==
    framerate = 0 \/ status = "nil"

\* The three checks of New.
NewFails(framerate, status, driver) ==
    framerate = 0 \/ status = "nil" \/ driver = "nil"

\* New: it returns (nil, error) or a controller whose fields, but for the
\* ones it is given, hold their zero values.  args records the arguments of
\* the call.
New ==
    /\ ~life.made
    /\ \E framerate \in {0, Framerate}, status \in {"nil", "display"},
          driver \in {"nil", "driver"} :
          life' = IF NewFails(framerate, status, driver)
                  THEN [life EXCEPT !.op = "New", !.ret = "error",
                                    !.args = <<framerate, status, driver>>]
                  ELSE [made |-> TRUE, init |-> FALSE,
                        op |-> "New", ret |-> "nil", stop |-> "none",
                        args |-> <<framerate, status, driver>>,
                        prior |-> "none"]
    /\ UNCHANGED <<ctlVars, mirror, pixel, fps, rgb, canvas, preview>>

\* What can go wrong in Init, in the order Init meets it: textbuf.New
\* fails, the status surface is too small, the boot line cannot be set,
\* EarlyInit fails, EarlyInit returns no face, the wait image or the list
\* of images or the face cannot be loaded.
InitStages ==
    <<"text", "size", "line", "early", "noface", "busy", "enum", "face">>

\* Where Init stops when the failures in fails occur: at the first of
\* them, or at "done".
InitStop(fails) ==
    IF \E i \in 1..Len(InitStages) : InitStages[i] \in fails
    THEN InitStages[CHOOSE i \in 1..Len(InitStages) :
                       /\ InitStages[i] \in fails
                       /\ \A j \in 1..(i - 1) : InitStages[j] \notin fails]
    ELSE "done"

\* Init that goes on without a face surface.
InitDone_NoFace(stop) == stop \in {"noface", "done"}

\* Init reached "g.init = true".
InitDone(stop) == stop = "done"

\* Gotogen.Init.
GotogenInit ==
    /\ life.made /\ ~halted /\ ~crashed
    /\ \E fails \in SUBSET {InitStages[i] : i \in 1..Len(InitStages)} :
       LET stop == InitStop(fails)
           busied == stop \in {"busy", "enum", "face", "done"}
           loaded == stop \in {"enum", "face", "done"}
           built == stop \in {"face", "done"}
       IN  IF life.init
           THEN /\ life' = [life EXCEPT !.op = "Init", !.ret = "error"]
                /\ UNCHANGED <<blinker, faceState, activeAnim, active,
                               statusDownmixChannel, statusDownmixCutoff,
                               statusFrameSkip, sinceChange, halted>>
           ELSE /\ blinker' = "low"
                /\ faceState' = IF busied THEN "busy" ELSE faceState
                /\ activeAnim' = IF loaded THEN BusyAnim ELSE activeAnim
                /\ active' = IF built THEN Active0 ELSE active
                /\ halted' = (stop = "enum")
                /\ IF InitDone(stop)
                   THEN /\ statusDownmixChannel' = colorChannelRed
                        /\ statusDownmixCutoff' = 160
                        /\ statusFrameSkip' = 0
                        /\ sinceChange' = 0
                   ELSE UNCHANGED <<statusDownmixChannel,
                                    statusDownmixCutoff, statusFrameSkip,
                                    sinceChange>>
                /\ life' = [life EXCEPT
                              !.op = "Init",
                              !.init = InitDone(stop),
                              !.stop = stop,
                              !.ret = IF stop = "enum" THEN "none"
                                      ELSE IF stop = "done" THEN "nil"
                                      ELSE "error"]
    /\ UNCHANGED <<statusState, activeMenu, selected, top, prev, hwLen, tick,
                   statusForceUpdate, boopDist, accel, peek, pressed,
                   focusAt, calls, previewLog, age, steps, drawn, faceErr,
                   statusErr, sensed, failed, crashed, mirror, pixel, fps,
                   rgb, canvas, preview>>

\* RunTick before Init succeeded: "not initialized".
RunTickNotInit ==
    /\ life.made /\ ~life.init /\ ~halted
    /\ life' = [life EXCEPT !.op = "RunTick", !.ret = "error"]
    /\ UNCHANGED <<ctlVars, mirror, pixel, fps, rgb, canvas, preview>>

\* Ticks after Init.
LifeTick ==
    Tick(MaxLifeTicks, {TRUE}, {0}, {NoReading}, {NoReading}, {FALSE},
         {FALSE})

\* The variables before New: the zero value of every field.
ZeroInit ==
    /\ life = NoController
    /\ statusState = "boot"
    /\ sinceChange = 0
    /\ activeMenu = Nil
    /\ selected = [n \in Menuables |-> 0]
    /\ top = [n \in Menuables |-> 0]
    /\ prev = [n \in Menuables |-> Nil]
    /\ active = [s \in SettingNodes |-> 0]
    /\ hwLen = 0
    /\ tick = 0
    /\ statusForceUpdate = FALSE
    /\ faceState = "busy"
    /\ activeAnim = Nil
    /\ statusFrameSkip = 0
    /\ statusDownmixChannel = colorChannelNone
    /\ statusDownmixCutoff = 0
    /\ boopDist = 0
    /\ accel = 0
    /\ peek = NoPeek
    /\ blinker = "low"
    /\ halted = FALSE
    /\ pressed = "unpolled"
    /\ focusAt = Nil
    /\ calls = << >>
    /\ previewLog = {}
    /\ age = 0
    /\ steps = << >>
    /\ drawn = NoDraw
    /\ faceErr = FALSE
    /\ statusErr = FALSE
    /\ sensed = <<NoReading, NoReading>>
    /\ failed = FALSE
    /\ crashed = FALSE

\* ------------------------------------------------------------- RGB565

\* The constants of RGB565 (media).
rwid == 5
gwid == 6
bwid == 5
boff == 0
goff == boff + bwid
roff == goff + gwid
rmask == 2 ^ rwid - 1
gmask == 2 ^ gwid - 1
bmask == 2 ^ bwid - 1
bytewid == 8

\* Go's &, |, << and >> on unsigned integers that fit 32 bits.
RECURSIVE BitAnd(_, _)
BitAnd(a, b) ==
    IF a = 0 \/ b = 0 THEN 0
    ELSE (a % 2) * (b % 2) + 2 * BitAnd(a \div 2, b \div 2)

RECURSIVE BitOr(_, _)
BitOr(a, b) ==
    IF a = 0 THEN b
    ELSE IF b = 0 THEN a
    ELSE (IF a % 2 = 1 \/ b % 2 = 1 THEN 1 ELSE 0)
           + 2 * BitOr(a \div 2, b \div 2)

Shl(a, n) == a * 2 ^ n
Shr(a, n) == a \div 2 ^ n

\* A channel that is only aligned: its low bits stay 0.
Replicate_Not(v, wid) == U8(v)

\* What RGBA does with a channel once its field is aligned to bit 7:
\* "r |= r >> rwid", "r |= r << bytewid" and uint8(r).
Replicate(v, wid) ==
    LET v1 == BitOr(v, Shr(v, wid))
        v2 == BitOr(v1, Shl(v1, bytewid))
    IN  U8(v2)

\* RGB565.RGBA
RGBA(c) ==
    [R |-> Replicate(Shr(BitAnd(c, Shl(rmask, roff)),
                         roff - (bytewid - rwid)), rwid),
     G |-> Replicate(Shr(BitAnd(c, Shl(gmask, goff)),
                         goff - (bytewid - gwid)), gwid),
     B |-> Replicate(Shl(BitAnd(c, bmask), bytewid - bwid), bwid),
     A |-> 255]

\* The RGB565 value with the fields r5, g6 and b5.
Pack(r5, g6, b5) == Shl(r5, roff) + Shl(g6, goff) + Shl(b5, boff)

\* No conversion was made.
NoColor == [R |-> 0, G |-> 0, B |-> 0, A |-> 0]
NoRgb == [c |-> 0, n |-> 0, out |-> NoColor]

\* Every RGB565 value.
RgbInit ==
    \E r5 \in 0..rmask, g6 \in 0..gmask, b5 \in 0..bmask :
        rgb = [c |-> Pack(r5, g6, b5), n |-> 0, out |-> NoColor]

\* One call of RGBA on the value.
RgbConvert ==
    /\ rgb.n < MaxConversions
    /\ rgb' = [rgb EXCEPT !.n = @ + 1, !.out = RGBA(rgb.c)]
    /\ UNCHANGED <<ctlVars, mirror, pixel, fps, canvas, preview, life>>

\* ------------------------------------------------------------ rendering

\* The loop of Render: row i is written while every row up to it passes
\* "i+top < uint8(len) && i < uint8(h-1)".
RenderedRows(S, m) ==
    {i \in 0..(TextRows - 2) :
        \A j \in 0..i : U8(j + S.top[m]) < NodeLen(S, m)}

\* The prefix of a child of a Menu.
MenuPrefix(item) ==
    CASE IsMenu(item) -> "+"
      [] IsSetting(item) -> ">"
      [] OTHER -> "*"

\* Menu.Render: the title line, and for every row the loop writes its
\* line on the text buffer (i + 1), the index of its entry, its prefix and
\* whether it is written inverted.
MenuRender(S, m) ==
    [title |-> m, titleInverse |-> TRUE,
     rows |-> [i \in RenderedRows(S, m) |->
                 [line |-> i + 1,
                  index |-> U8(i + S.top[m]),
                  prefix |-> MenuPrefix(Items(m, S.hwLen)[U8(i + S.top[m]) + 1]),
                  inverse |-> i = U8(S.selected[m] - S.top[m])]]]

\* SettingItem.Render
SettingRender(S, m) ==
    [title |-> m, titleInverse |-> TRUE,
     rows |-> [i \in RenderedRows(S, m) |->
                 [line |-> i + 1,
                  index |-> U8(i + S.top[m]),
                  prefix |-> IF i = U8(S.active[m] - S.top[m])
                             THEN "*" ELSE " ",
                  inverse |-> i = U8(S.selected[m] - S.top[m])]]]

\* g.activeMenu.Render(g.statusText)
Render(S, m) == IF IsMenu(m) THEN MenuRender(S, m) ELSE SettingRender(S, m)

\* ------------------------------------------------------ Peek's surface

\* The pixels of a surface of sw columns and sh rows, as <<x, y>>.
SurfCells(sw, sh) == (0..(sw - 1)) \X (0..(sh - 1))

\* No Peek instance and no surface.
NoCanvas ==
    [on |-> FALSE, iw |-> 0, ih |-> 0, sw |-> 0, sh |-> 0, cells |-> {},
     covered |-> {}, p |-> NoPeek, cont |-> TRUE]

\* A retreat that leaves the row it moves up from as it is.
BlankRow_Not(cells, y, iw) == cells

\* "blank the row we're moving up from": SetPixel(x, y, color.RGBA{}) for
\* every x below the width of the image.  cells holds the pixels of the
\* surface that are not blank.
BlankRow(cells, y, iw) == cells \ {<<x, y>> : x \in 0..(iw - 1)}

\* The pixels DrawImage(disp, 0, offY, img, false) writes: those of the
\* image, an iw by ih rectangle, that fall on the surface.
Footprint(offY, iw, ih, sw, sh) ==
    {c \in SurfCells(sw, sh) : c[1] < iw /\ (c[2] - offY) \in 0..(ih - 1)}

\* animation.DrawImage without wrap, of an image without a blank pixel.
DrawImage(cells, offY, iw, ih, sw, sh) ==
    cells \cup Footprint(offY, iw, ih, sw, sh)

\* Surfaces and images, and a surface that shows anything before Peek is
\* activated.
CanvasInit ==
    \E iw \in 1..MaxPeekW, ih \in 1..MaxPeekH, sw \in 1..MaxSurfW,
       sh \in 1..MaxSurfH :
       \E cells \in SUBSET SurfCells(sw, sh) :
          canvas = [NoCanvas EXCEPT !.iw = iw, !.ih = ih, !.sw = sw,
                                    !.sh = sh, !.cells = cells]

\* peek Anim.Activate
CanvasActivate ==
    /\ ~canvas.on
    /\ canvas' = [canvas EXCEPT !.on = TRUE,
                                !.p = PeekActivateOf(@, canvas.ih),
                                !.cells = {}]
    /\ UNCHANGED <<ctlVars, mirror, pixel, fps, rgb, preview, life>>

\* peek Anim.DrawFrame, el tenths of a second after the previous call.
CanvasDrawFrame ==
    /\ canvas.on /\ canvas.cont
    /\ \E el \in {0, PeekDelay, PeekDwell} :
          LET p == canvas.p
              d == PeekDrawFrameOf(p, el, canvas.ih)
              from == p.y + canvas.ih - 1
              c1 == IF p.moveUp /\ from >= 0
                    THEN BlankRow(canvas.cells, from, canvas.iw)
                    ELSE canvas.cells
              c2 == DrawImage(c1, d.peek.y, canvas.iw, canvas.ih,
                              canvas.sw, canvas.sh)
          IN  canvas' =
                IF el < p.next
                THEN [canvas EXCEPT !.p = d.peek]
                ELSE [canvas EXCEPT
                        !.p = d.peek, !.cont = d.cont, !.cells = c2,
                        !.covered = @ \cup Footprint(d.peek.y, canvas.iw,
                                                     canvas.ih, canvas.sw,
                                                     canvas.sh)]
    /\ UNCHANGED <<ctlVars, mirror, pixel, fps, rgb, preview, life>>

\* ---------------------------------------------------------------- Busy

\* Gotogen.busy: the face state becomes Busy; the wait image, when it
\* loads, is drawn on the face mirror, presented, and made the active
\* animation.
busy(S, loads) ==
    IF loads
    THEN [S EXCEPT !.faceState = "busy", !.activeAnim = BusyAnim]
    ELSE [S EXCEPT !.faceState = "busy"]

\* Busy without the change of the face state.
BusyFn_KeepFaceState(S, loads) ==
    changeStatusState([S EXCEPT !.steps = << >>,
                                !.activeAnim = IF loads THEN BusyAnim ELSE @],
                      "idle", 0)

\* Gotogen.Busy: busy(), the caller's f, the wait for a button, and the
\* change to Idle.
BusyFn(S, loads) ==
    changeStatusState(busy([S EXCEPT !.steps = << >>], loads), "idle", 0)

\* A call of Busy between two ticks.
BusyCall ==
    /\ life.init /\ ~halted /\ ~crashed
    /\ \E loads \in BOOLEAN :
       \E R \in {BusyFn(Ctl, loads)} :
          /\ faceState' = R.faceState
          /\ activeAnim' = R.activeAnim
          /\ statusState' = R.statusState
          /\ sinceChange' = R.sinceChange
          /\ activeMenu' = R.activeMenu
          /\ steps' = R.steps
          /\ failed' = R.failed
    /\ life' = [life EXCEPT !.op = "Busy", !.ret = "none"]
    /\ UNCHANGED <<selected, top, prev, active, hwLen, tick,
                   statusForceUpdate, statusFrameSkip, statusDownmixChannel,
                   statusDownmixCutoff, boopDist, accel, peek, blinker,
                   halted, pressed, focusAt, calls, previewLog, age, drawn,
                   faceErr, statusErr, sensed, crashed, mirror, pixel, fps,
                   rgb, canvas, preview>>

\* Ticks between which Busy can be called.
BusyTick ==
    Tick(MaxBusyTicks, {TRUE}, {0}, {NoReading}, {NoReading}, {FALSE},
         {FALSE})

\* ------------------------------------------------- the built-in settings

\* Options of "Frame skip", "Face dupl. color" and "Face dupl. cutoff";
\* the labels of the cutoff are hexadecimal digits, written as their values.
SkipLabels == <<0, 1, 2, 4, 8, 16>>
ColorLabels == <<"full", "red", "green", "blue">>
CutoffLabels == <<1, 2, 3, 4, 5, 6, 7, 8, 9, 10, 11, 13, 14, 15>>

\* The controller five ticks after Init: Boot was left by a button, the
\* menu opened, Down pressed twice and "Internal screen" selected.
SettingStart ==
    /\ life = [Initialized EXCEPT !.op = "RunTick", !.prior = "RunTick"]
    /\ statusState = "menu"
    /\ sinceChange = 0
    /\ activeMenu = Internal
    /\ selected = [n \in Menuables |-> IF n = Root THEN 2 ELSE 0]
    /\ top = [n \in Menuables |-> 0]
    /\ prev = [n \in Menuables |-> IF n = Internal THEN Root ELSE Nil]
    /\ active = Active0
    /\ hwLen = 0
    /\ tick = 5
    /\ statusForceUpdate = FALSE
    /\ faceState = "default"
    /\ activeAnim = FaceAnim
    /\ statusFrameSkip = 0
    /\ statusDownmixChannel = colorChannelRed
    /\ statusDownmixCutoff = 160
    /\ boopDist = 0
    /\ accel = 0
    /\ peek = NoPeek
    /\ blinker = "high"
    /\ halted = FALSE
    /\ pressed = "menu"
    /\ focusAt = Root
    /\ calls = << >>
    /\ previewLog = {}
    /\ age = 0
    /\ steps = <<"blinkerOff", "tick", "boop", "accel", "canRedraw", "poll",
                 "render", "drawFrame", "faceDisplay", "statusDisplay",
                 "blinkerOn">>
    /\ drawn = [anim |-> FaceAnim, gen |-> 0, cont |-> TRUE, wrote |-> TRUE]
    /\ faceErr = FALSE
    /\ statusErr = FALSE
    /\ sensed = <<NoReading, NoReading>>
    /\ failed = FALSE
    /\ crashed = FALSE

\* Ticks while the menu stays open.
SettingTick ==
    /\ statusState = "menu"
    /\ Tick(MaxSettingTicks, {TRUE}, {0}, {NoReading}, {NoReading}, {FALSE},
            {FALSE})

\* ------------------------------------ the preview on the status surface

\* The cell of textbuf.FontSize6x8, and the row SetPixel adds to a
\* preview pixel.
FontW == 6
FontH == 8
PreviewOffset == 32

\* Surfaces tried, as <<width, height>>.
StatusSizes == {<<128, 64>>, <<127, 64>>, <<128, 63>>, <<160, 80>>}
FaceSizes == {<<128, 32>>, <<64, 32>>, <<128, 33>>, <<128, 64>>, <<300, 16>>}

NoPreview == [sw |-> 0, sh |-> 0, fw |-> 0, fh |-> 0, nil |-> FALSE,
              init |-> "no", x |-> -1, y |-> -1, at |-> {}]

\* The tests of Init on the two surfaces it was given.
InitAccepts(sw, sh, fw, fh, nil) ==
    /\ ~(sw \div FontW < 20 \/ sh \div FontH < 8 \/ sw < 128 \/ sh < 64)
    /\ ~nil

\* The cells of the status surface that statusMirror.SetPixel(x, y+32, c)
\* writes: the pixel and its reflection about the physical width.
PreviewCells(sw, x, y) ==
    {<<x, y + PreviewOffset>>, <<sw - x - 1, y + PreviewOffset>>}

PreviewStart ==
    \E s \in StatusSizes, f \in FaceSizes, nil \in BOOLEAN :
       preview = [NoPreview EXCEPT !.sw = s[1], !.sh = s[2], !.fw = f[1],
                                   !.fh = f[2], !.nil = nil]

\* Init over the two surfaces.
PreviewInit ==
    /\ preview.init = "no"
    /\ preview' = [preview EXCEPT !.init =
                     IF InitAccepts(preview.sw, preview.sh, preview.fw,
                                    preview.fh, preview.nil)
                     THEN "ok" ELSE "error"]
    /\ UNCHANGED <<ctlVars, mirror, pixel, fps, rgb, canvas, life>>

\* An animation draws one pixel inside Size(), the logical face surface,
\* while the gate of Gotogen.SetPixel is open.
PreviewSetPixel ==
    /\ preview.init = "ok"
    /\ preview.at = {}
    /\ \E x \in 0..preview.fw \div 2 - 1, y \in 0..preview.fh - 1 :
         preview' = [preview EXCEPT !.x = x, !.y = y,
                                    !.at = PreviewCells(preview.sw, x, y)]
    /\ UNCHANGED <<ctlVars, mirror, pixel, fps, rgb, canvas, life>>

\* ------------------------------------- the frame-skip gate, 32 bits

\* A uint32 kept as <<high, low>>, modulo k.
Mod32(t, k) == (((t[1] % k) * (Half % k)) + (t[2] % k)) % k

\* uint8(g.tick)
Low8(t) == Mod32(t, 256)

\* A controller at a tick just below a wrap of the low 8 bits, of the low
\* 16 bits or of all 32 bits, or after Init.
GateStart ==
    \E t \in {<<0, 0>>, <<0, 250>>, <<0, Half - 6>>, <<Half - 1, Half - 6>>} :
       fps = FpsAt(t, 0)

\* "Frame skip" is set to one of its options.
GateApply ==
    /\ \E sel \in 0..SkipOptions - 1 :
         statusFrameSkip' = setStatusFrameSkip(Ctl, sel).statusFrameSkip
    /\ UNCHANGED <<statusState, sinceChange, activeMenu, selected, top, prev,
                   active, hwLen, tick, statusForceUpdate, faceState,
                   activeAnim, statusDownmixChannel, statusDownmixCutoff,
                   boopDist, accel, peek, blinker, halted, pressed, focusAt,
                   calls, previewLog, age, steps, drawn, faceErr, statusErr,
                   sensed, failed, crashed, mirror, pixel, fps, rgb, canvas,
                   preview, life>>

\* -------------------------------------------------- specifications

Init ==
    CtlInit /\ mirror = NoMirror /\ pixel = NoPixel /\ fps = NoFps
      /\ rgb = NoRgb /\ canvas = NoCanvas /\ preview = NoPreview

Next == RunTick

Spec == Init /\ [][Next]_vars

MirrorSpecInit ==
    CtlInit /\ MirrorInit /\ pixel = NoPixel /\ fps = NoFps
      /\ rgb = NoRgb /\ canvas = NoCanvas /\ preview = NoPreview
MirrorNext == MirrorWrite
MirrorSpec == MirrorSpecInit /\ [][MirrorNext]_vars

PixelSpecInit ==
    CtlInit /\ mirror = NoMirror /\ PixelInit /\ fps = NoFps
      /\ rgb = NoRgb /\ canvas = NoCanvas /\ preview = NoPreview
PixelNext == PixelWrite
PixelSpec == PixelSpecInit /\ [][PixelNext]_vars

AnimNext == AnimTick
AnimSpec == Init /\ [][AnimNext]_vars

SensorNext == SensorTick
SensorSpec == Init /\ [][SensorNext]_vars

ScaledSensorNext == ScaledSensorTick
ScaledSensorSpec == Init /\ [][ScaledSensorNext]_vars

FaultNext == FaultTick \/ Blink
FaultSpec == Init /\ [][FaultNext]_vars

LifeInit ==
    ZeroInit /\ mirror = NoMirror /\ pixel = NoPixel /\ fps = NoFps
      /\ rgb = NoRgb /\ canvas = NoCanvas /\ preview = NoPreview
LifeNext == New \/ GotogenInit \/ RunTickNotInit \/ LifeTick \/ Blink
LifeSpec == LifeInit /\ [][LifeNext]_vars

RgbSpecInit ==
    CtlInit /\ mirror = NoMirror /\ pixel = NoPixel /\ fps = NoFps
      /\ RgbInit /\ canvas = NoCanvas /\ preview = NoPreview
RgbNext == RgbConvert
RgbSpec == RgbSpecInit /\ [][RgbNext]_vars

PeekSpecInit ==
    CtlInit /\ mirror = NoMirror /\ pixel = NoPixel /\ fps = NoFps
      /\ rgb = NoRgb /\ CanvasInit /\ preview = NoPreview
PeekNext == CanvasActivate \/ CanvasDrawFrame
PeekSpec == PeekSpecInit /\ [][PeekNext]_vars

BusyNext == New \/ GotogenInit \/ BusyTick \/ BusyCall
BusySpec == LifeInit /\ [][BusyNext]_vars

SettingSpecInit ==
    SettingStart /\ mirror = NoMirror /\ pixel = NoPixel /\ fps = NoFps
      /\ rgb = NoRgb /\ canvas = NoCanvas /\ preview = NoPreview
SettingNext == SettingTick
SettingSpec == SettingSpecInit /\ [][SettingNext]_vars

PreviewSpecInit ==
    CtlInit /\ mirror = NoMirror /\ pixel = NoPixel /\ fps = NoFps
      /\ rgb = NoRgb /\ canvas = NoCanvas /\ PreviewStart
PreviewNext == PreviewInit \/ PreviewSetPixel
PreviewSpec == PreviewSpecInit /\ [][PreviewNext]_vars

GateSpecInit ==
    CtlInit /\ mirror = NoMirror /\ pixel = NoPixel /\ GateStart
      /\ rgb = NoRgb /\ canvas = NoCanvas /\ preview = NoPreview
GateNext == FpsTick \/ GateApply
GateSpec == GateSpecInit /\ [][GateNext]_vars

FpsSpecInit ==
    CtlInit /\ mirror = NoMirror /\ pixel = NoPixel /\ FpsInit
      /\ rgb = NoRgb /\ canvas = NoCanvas /\ preview = NoPreview
FpsNext == FpsTick
FpsSpec == FpsSpecInit /\ [][FpsNext]_vars

\* ----------------------------------------------------------- claims

\* Rows that list children or options: the text rows but the title row.
VisibleRows == TextRows - 1

\* The nodes reached from node a along the back-references pv.
RECURSIVE Chain(_, _, _)
Chain(pv, a, k) ==
    IF a = Nil \/ k = 0 THEN {} ELSE {a} \cup Chain(pv, pv[a], k - 1)

FocusPathOf(pv, a) == Chain(pv, a, Cardinality(Menuables))

\* The child a Select on Menu m targets, Nil when there is none.
Target(m) ==
    IF IsMenu(m) /\ selected[m] < Count(Ctl, m)
    THEN Items(m, hwLen)[selected[m] + 1] ELSE Nil

\* C1: after every Up or Down handled while a Menu with N >= 1 children is
\* focused, 0 <= selected < N and top <= selected <= top + V - 1.
C1_UpDownKeepsCursorInWindow ==
    (/\ statusState = "menu" /\ ~crashed
     /\ pressed \in {"up", "down"}
     /\ IsMenu(activeMenu)
     /\ Count(Ctl, activeMenu) >= 1)
    => /\ 0 <= selected[activeMenu]
       /\ selected[activeMenu] < Count(Ctl, activeMenu)
       /\ top[activeMenu] <= selected[activeMenu]
       /\ selected[activeMenu] <= top[activeMenu] + VisibleRows - 1

\* C2: while the menu is open, after every handled button event the focused
\* node, when it has at least one child or option, has selected < length,
\* top <= selected and selected < top + visible rows.
C2_FocusedCursorInWindow ==
    (/\ statusState = "menu" /\ ~crashed
     /\ pressed \in {"up", "down", "menu", "back"}
     /\ activeMenu # Nil
     /\ Count(Ctl, activeMenu) >= 1)
    => /\ selected[activeMenu] < Count(Ctl, activeMenu)
       /\ top[activeMenu] <= selected[activeMenu]
       /\ selected[activeMenu] < top[activeMenu] + VisibleRows

\* C3: Select on a Menu row that is a SettingItem focuses the item with its
\* cursor equal to its active value; Select on a focused SettingItem sets
\* active to the cursor, calls apply exactly once with that value and
\* returns focus to the node the item was entered from.
C3_SettingSelectAndConfirm ==
    [][/\ (/\ statusState = "menu" /\ pressed' = "menu"
           /\ IsSetting(Target(activeMenu)))
          => /\ activeMenu' = Target(activeMenu)
             /\ selected'[Target(activeMenu)] = active'[Target(activeMenu)]
             /\ active' = active
             /\ calls' = << >>
       /\ (/\ statusState = "menu" /\ pressed' = "menu"
           /\ IsSetting(activeMenu))
          => /\ active'[activeMenu] = selected[activeMenu]
             /\ calls' = << <<activeMenu, selected[activeMenu]>> >>
             /\ prev[activeMenu] # Nil
             /\ activeMenu' = prev[activeMenu]]_vars

\* A SettingItem was confirmed on option 1: apply ran once with 1, option 1
\* is active and the menu the item was entered from has the focus again.
C3_Witness ==
    \E s \in SettingNodes :
       /\ pressed = "menu" /\ focusAt = s
       /\ calls = << <<s, 1>> >> /\ active[s] = 1
       /\ IsMenu(activeMenu)

\* C4: Back with the root focused changes the state to Idle; Back with a
\* nested node focused focuses the node it was entered from and clears the
\* popped node's back-reference, after which no node outside the focus
\* path has a back-reference.
C4_BackPopsAndClears ==
    [][(statusState = "menu" /\ pressed' = "back")
       => IF activeMenu = Root
          THEN statusState' = "idle"
          ELSE /\ statusState' = "menu"
               /\ activeMenu' = prev[activeMenu]
               /\ prev'[activeMenu] = Nil
               /\ \A n \in Menuables :
                    prev'[n] # Nil => n \in FocusPathOf(prev', activeMenu')]_vars

\* C5: a node's back-reference is set only if the menu is open and the node
\* is on the focus path.
C5_BackRefsOnlyOnFocusPath ==
    \A n \in Menuables :
       prev[n] # Nil
       => statusState = "menu" /\ n \in FocusPathOf(prev, activeMenu)

\* C6: the active menu cursor is non-nil exactly when the state is Menu.
C6_CursorIffMenu ==
    (activeMenu # Nil) <=> (statusState = "menu")

\* The "Blank screen" action was invoked from the "Internal screen" menu:
\* the state left Menu within a Select and the cursor is nil.
C6_Witness ==
    /\ pressed = "menu" /\ focusAt = Internal
    /\ calls = << <<BlankAct, -1>> >>
    /\ statusState = "blank" /\ activeMenu = Nil

\* C7: Select while a Menu without children is focused does not crash,
\* invokes no callback and leaves the focused node, its selected and top
\* and the overlay state unchanged.
C7_SelectOnEmptyMenu ==
    [][(/\ statusState = "menu" /\ pressed' = "menu"
        /\ IsMenu(activeMenu) /\ Count(Ctl, activeMenu) = 0)
       => /\ ~crashed'
          /\ calls' = << >>
          /\ activeMenu' = activeMenu
          /\ selected' = selected /\ top' = top /\ prev' = prev
          /\ statusState' = "menu"]_vars

\* Select was handled while the hardware submenu, which the driver left
\* empty, had the focus.
C7_Witness ==
    /\ statusState = "menu" /\ pressed = "menu"
    /\ focusAt = Hw /\ hwLen = 0 /\ activeMenu = Hw /\ ~crashed

\* C8, as stated: SetPixel(x,y,c) on a Mirror of logical width W leaves
\* (x,y) and (2W-x-1,y) equal to c and writes no other pixel.
C8_MirrorFlip2W ==
    [][mirror' # mirror
       => LET l == mirror'.last
              f == <<2 * mirror.w - l.x - 1, l.y>>
          IN  /\ f \in DOMAIN mirror'.px
              /\ mirror'.px[<<l.x, l.y>>] = l.c
              /\ mirror'.px[f] = l.c
              /\ \A q \in DOMAIN mirror.px :
                   q \notin {<<l.x, l.y>>, f} => mirror'.px[q] = mirror.px[q]
              /\ 2 * mirror.w - f[1] - 1 = l.x]_vars

\* C8, amended: SetPixel(x,y,c) leaves (x,y) and (realW-x-1,y) equal to c,
\* realW the physical width, and writes no other pixel; the flip
\* x -> realW-x-1 applied twice returns x.
C8_MirrorFlipRealW ==
    [][mirror' # mirror
       => LET l == mirror'.last
              f == <<mirror.realW - l.x - 1, l.y>>
          IN  /\ f \in DOMAIN mirror'.px
              /\ mirror'.px[<<l.x, l.y>>] = l.c
              /\ mirror'.px[f] = l.c
              /\ \A q \in DOMAIN mirror.px :
                   q \notin {<<l.x, l.y>>, f} => mirror'.px[q] = mirror.px[q]
              /\ mirror.realW - f[1] - 1 = l.x]_vars

\* A pixel was written through a Mirror over a surface of odd width, over
\* a pixel of another colour.
C8_Witness ==
    /\ mirror.writes = 2 /\ mirror.realW = 3
    /\ mirror.last = [x |-> 0, y |-> 0, c |-> 2]
    /\ mirror.px[<<2, 0>>] = 2

\* The intensity of channel ch of colour c.
Channel(c, ch) ==
    CASE ch = colorChannelRed -> c.R
      [] ch = colorChannelGreen -> c.G
      [] ch = colorChannelBlue -> c.B

C10_PreviewOnlyWhenGated ==
    \A r \in previewLog : r.state = "idle" /\ r.can /\ r.skipOk

\* The last tick called DrawFrame of a Peek and got false.
PeekEnded == drawn.anim[1] = "peek" /\ ~drawn.cont

\* A Peek's DrawFrame returns false only once the image has been at y = 0,
\* has stayed there for the dwell and has left the surface; in that tick
\* Face becomes the active animation in face state Default; an instance
\* that returned false is not drawn again.
PeekRunsToItsEnd ==
    /\ (drawn'.anim[1] = "peek" /\ ~drawn'.cont)
       => /\ peek'.shown /\ peek'.held >= PeekDwell
          /\ peek'.y < -ImgRows
          /\ activeAnim' = FaceAnim /\ faceState' = "default"
    /\ (drawn'.anim[1] = "peek" /\ peek.fin) => drawn'.gen > peek.gen

\* C11, as stated: ... and the tick after the one in which Peek returned
\* false draws Face.
C11_NextTickDrawsFace ==
    [][/\ PeekRunsToItsEnd
       /\ PeekEnded => drawn'.anim = FaceAnim]_vars

\* C11, amended: after Peek is activated every DrawFrame call returns true
\* until the image has been fully shown, held for the dwell and has left
\* the surface; the call that returns false makes Face the active
\* animation in that tick, the finished Peek is never drawn again, and the
\* next tick draws Face unless a menu action starts an animation in it.
C11_PeekLifecycle ==
    [][/\ PeekRunsToItsEnd
       /\ PeekEnded
          => \/ drawn'.anim = FaceAnim
             \/ /\ pressed' = "menu" /\ Len(calls') = 1
                /\ drawn'.anim = calls'[1][1]]_vars

\* A Peek was shown, held for the dwell, has left the surface and returned
\* false in the last tick, and Face is the active animation.
C11_Witness ==
    /\ PeekEnded
    /\ peek.fin /\ peek.shown /\ peek.held = PeekDwell
    /\ peek.y = -ImgRows - 1
    /\ activeAnim = FaceAnim /\ faceState = "default"

\* C12: whenever the FPS is recomputed, lastFPS = (tick - lastTicks) mod
\* 2^32 is the number of ticks run since the previous recomputation, also
\* across a wrap of the tick counter; it is not negative and not above the
\* framerate when ticks run at most framerate times per second.
C12_FpsCountsTicks ==
    fps.done
    => /\ fps.lastFPS = <<0, fps.ran>>
       /\ fps.ran >= 0 /\ fps.ran <= Framerate

\* The FPS was recomputed at tick 1, three ticks after the recomputation
\* at tick 2^32 - 2.
C12_Witness ==
    /\ fps.done /\ fps.tick = <<0, 1>> /\ fps.ran = 3
    /\ fps.lastFPS = <<0, 3>>

\* C13: the overlay starts in Boot; a tick in Boot changes the state to
\* Idle exactly when it comes later than 10 s after Init or reports a
\* button other than None, and to no other state.
C13_BootLeavesToIdle ==
    /\ statusState = "boot"
    /\ [][statusState = "boot"
          => /\ statusState' \in {"boot", "idle"}
             /\ statusState' = "idle"
                <=> \/ age' > menuTimeout
                    \/ pressed' \notin {"none", "unpolled"}]_vars

\* Boot was left by timeout at the second tick, 12 s after Init, without
\* a button.
C13_Witness ==
    /\ tick = 2 /\ statusState = "idle"
    /\ pressed = "unpolled" /\ age > menuTimeout

\* The last tick did step l.
Did(l) == \E i \in 1..Len(steps) : steps[i] = l

\* The last tick found the state Idle, kept it and redrew the status line.
IdleRedraw ==
    statusState = "idle" /\ Did("idleStatus") /\ ~Did("clearStatus")

\* C14: while the state is Idle the status line is redrawn at most once in
\* any one-second interval: two ticks that both redraw it are at least a
\* second apart.
C14_IdleRedrawOncePerSecond ==
    [][(IdleRedraw /\ IdleRedraw') => age' - sinceChange >= 1]_vars

\* C15: a tick in Menu state that comes later than 10 s after the last
\* handled button event (or the opening of the menu) returns to Idle
\* without polling; any other tick polls, restarts the timer when the
\* button is Up, Down, Select or Back, lets it run on otherwise, and
\* leaves the menu for Idle only by Back at the root.
C15_MenuTimerRestarts ==
    [][statusState = "menu"
       => IF age' > menuTimeout
          THEN statusState' = "idle" /\ pressed' = "unpolled"
          ELSE /\ pressed' # "unpolled"
               /\ pressed' \in {"up", "down", "menu", "back"}
                  => sinceChange' = 0
               /\ pressed' \in {"none", "default"}
                  => sinceChange' = age' /\ statusState' = "menu"
               /\ statusState' = "idle"
                  => pressed' = "back" /\ focusAt' = Root]_vars

\* The menu was opened, Down was handled in it, and more than 10 s after
\* the last handled event a tick returned it to Idle.
C15_Witness ==
    /\ statusState = "idle" /\ pressed = "unpolled" /\ age > menuTimeout
    /\ selected[Root] = 1

\* C16: the tick that enters Blank clears the status surface; no pixel is
\* written to the status surface while the state is Blank; a tick that ends
\* in Blank does not present the status surface (but for that clear);
\* a tick in Blank without a button stays in Blank and one with any button
\* changes the state to Idle.
C16_BlankIsQuiet ==
    [][/\ (statusState # "blank" /\ statusState' = "blank")
          => Did("clearStatus")'
       /\ \A r \in previewLog' : r.state # "blank"
       /\ statusState' = "blank" => ~Did("statusDisplay")'
       /\ statusState = "blank"
          => /\ statusState' = "blank" => ~Did("clearStatus")'
             /\ pressed' = "none" => statusState' = "blank"
             /\ pressed' # "none" => statusState' = "idle"]_vars

\* C17: a tick that finds the state Idle and polls Select ends in Menu with
\* the root menu focused; one that polls Back while the face state is not
\* Default ends with Face active and the face state Default; one that polls
\* Back while Face is active changes neither the overlay state nor the
\* active animation.
C17_IdleButtons ==
    [][statusState = "idle"
       => /\ pressed' = "menu"
             => statusState' = "menu" /\ activeMenu' = Root
          /\ (pressed' = "back" /\ faceState # "default")
             => activeAnim' = FaceAnim /\ faceState' = "default"
          /\ (pressed' = "back" /\ activeAnim = FaceAnim)
             => /\ statusState' = statusState
                /\ activeAnim' = activeAnim
                /\ faceState' = faceState]_vars

\* The last tick found the state Idle while an animation started from the
\* menu was playing, polled Back and returned to Face: the return forced the
\* preview, and the frame drawn in that tick is one of Face.
C17_Witness ==
    /\ statusState = "idle" /\ pressed = "back" /\ focusAt = Nil
    /\ statusForceUpdate /\ drawn.anim = FaceAnim
    /\ activeAnim = FaceAnim /\ faceState = "default"

\* What the last tick's sensor answer leaves in the cache: the value of an
\* Available reading, the value cached before otherwise.
Cached(reading, before) ==
    IF reading[1] = "available" THEN reading[2] ELSE before

\* No sensor answer changes what a tick does to the overlay state and the
\* animation, and none makes it fail.
SensorsDoNotSteer ==
    \A but \in Buttons, boop \in Readings, acc \in Readings :
    \A canPx \in PxInputs(TRUE), el \in PeekInputs(0) :
        LET e == [dt |-> 0, but |-> but, can |-> TRUE, n |-> 0, el |-> el,
                  canPx |-> canPx, boop |-> NoReading, acc |-> NoReading,
                  faceErr |-> FALSE, statusErr |-> FALSE]
            R0 == RunTickFn(Ctl, e)
            R == RunTickFn(Ctl, [e EXCEPT !.boop = boop, !.acc = acc])
        IN  /\ R.statusState = R0.statusState
            /\ R.activeMenu = R0.activeMenu
            /\ R.faceState = R0.faceState
            /\ R.activeAnim = R0.activeAnim
            /\ R.peek = R0.peek
            /\ ~R.crashed /\ ~R.halted

\* C18: in each tick, for each sensor by itself, an Available reading
\* replaces the cached value with exactly the value the driver returned and
\* a Busy or Unavailable reading leaves the cached value as it was; no
\* sensor answer makes the tick fail or changes the overlay or animation
\* state.
C18_SensorsCached ==
    /\ [][tick' # tick
          => /\ boopDist' = Cached(sensed'[1], boopDist)
             /\ accel' = Cached(sensed'[2], accel)
             /\ ~crashed' /\ ~halted']_vars
    /\ []SensorsDoNotSteer

\* The steps of the last tick that are among ls, in their order.
StepsAmong(ls) == SelectSeq(steps, LAMBDA l : l \in ls)

\* The steps of a tick that the order of RunTick is about.
OrderedSteps ==
    {"blinkerOff", "tick", "boop", "accel", "poll", "drawFrame",
     "faceDisplay", "statusDisplay", "blinkerOn"}

\* The order of the steps of a tick that polls as polled says and presents
\* the status surface as status says.
TickOrder(polled, status) ==
    <<"blinkerOff", "tick", "boop", "accel">>
      \o (IF polled THEN <<"poll">> ELSE << >>)
      \o <<"drawFrame", "faceDisplay">>
      \o (IF status THEN <<"statusDisplay">> ELSE << >>)
      \o <<"blinkerOn">>

\* What the overlay state machine did in the last tick lies between the
\* sensor reads and the frame of the animation.
StateMachineInItsPlace ==
    \A i \in 1..Len(steps) :
        steps[i] \in {"poll", "clearStatus", "idleStatus"}
        => /\ \E j \in 1..(i - 1) : steps[j] = "accel"
           /\ \E j \in (i + 1)..Len(steps) : steps[j] = "drawFrame"

\* C19 as the claim states it: every tick that returns sets the busy
\* indicator low, increments the tick counter once, reads boop then the
\* accelerometer, runs the state machine, which polls the button at most
\* once, advances the animation by one DrawFrame, presents the face surface
\* once, presents the status surface unless the state is Blank, and sets
\* the busy indicator high last.
C19_TickOrder ==
    [][(tick' # tick /\ ~halted' /\ ~crashed')
       => /\ tick' = tick + 1
          /\ StepsAmong(OrderedSteps)'
               = TickOrder(pressed' # "unpolled", statusState' # "blank")
          /\ StateMachineInItsPlace'
          /\ blinker' = "high"]_vars

\* C19, amended: the same order, in which the status surface is presented
\* exactly when the state is not Blank and the status display can take a
\* frame in this tick (CanUpdateNow() and the frame skip permit it).
C19_TickOrderWhenReady ==
    [][(tick' # tick /\ ~halted' /\ ~crashed')
       => /\ tick' = tick + 1
          /\ StepsAmong(OrderedSteps)'
               = TickOrder(pressed' # "unpolled",
                           statusState' # "blank" /\ Did("canRedraw")')
          /\ StateMachineInItsPlace'
          /\ blinker' = "high"]_vars

\* The last tick returned in a state other than Blank, polled the button,
\* changed the overlay state, and did not present the status surface at its
\* end, because the status display could not take a frame.
C19_Witness ==
    /\ tick > 0 /\ ~halted /\ ~crashed /\ blinker = "high"
    /\ statusState # "blank" /\ pressed # "unpolled"
    /\ Did("clearStatus") /\ ~Did("canRedraw") /\ ~Did("statusDisplay")
    /\ Did("faceDisplay") /\ Did("drawFrame")

\* C20: a tick in which a presentation of the face surface or of the
\* status surface fails, the one of clearStatusScreen included, ends in the
\* halt loop; in the halt loop the tick counter, the overlay state and the
\* animation stay as they are, no tick runs, and every step toggles the
\* blinker.
C20_PresentationFailureHalts ==
    [][/\ (tick' # tick /\ failed') => halted'
       /\ halted => /\ halted'
                    /\ tick' = tick
                    /\ statusState' = statusState
                    /\ faceState' = faceState
                    /\ activeAnim' = activeAnim
                    /\ blinker' # blinker]_vars

\* The MenuItems() calls of the last tick.
MenuItemsQueries == SelectSeq(calls, LAMBDA c : c[1] = MenuItemsCall)

\* C21: a tick that changes the overlay state to Menu queries MenuItems()
\* exactly once, leaves exactly the returned list, in its order, as the
\* children of the hardware menu and focuses the root menu; no other tick
\* queries MenuItems() or changes those children.
C21_MenuItemsOnOpen ==
    [][IF statusState # "menu" /\ statusState' = "menu"
       THEN /\ Len(MenuItemsQueries') = 1
            /\ Items(Hw, hwLen') = Returned(MenuItemsQueries'[1][2])
            /\ activeMenu' = Root
       ELSE /\ MenuItemsQueries' = << >>
            /\ Items(Hw, hwLen') = Items(Hw, hwLen)]_vars

\* The menu was opened again, the driver returned two items, and the
\* hardware menu, whose cursor still stands where it stood in a list of
\* three, has these two.
C21_Witness ==
    /\ statusState = "menu" /\ activeMenu = Root /\ pressed = "menu"
    /\ calls = << <<MenuItemsCall, 2>> >>
    /\ hwLen = 2 /\ selected[Hw] = 2

\* The controller variables are what they were.
SameController == UNCHANGED ctlVars

\* C22: Init returns an error and leaves the controller uninitialized when
\* the status surface is too small, when EarlyInit returns an error and
\* when EarlyInit returns no face surface; RunTick on a controller that is
\* not initialized returns an error and changes nothing of the controller
\* (tick counter, sensor cache, surfaces); Init on an initialized
\* controller returns an error and changes nothing.
C22_InitFailures ==
    [][/\ (~life.init /\ life'.op = "RunTick")
          => life'.ret = "error" /\ ~life'.init /\ SameController
       /\ (life.init /\ life'.op = "Init")
          => life'.ret = "error" /\ life'.init /\ SameController
       /\ (~life.init /\ life'.op = "Init"
             /\ life'.stop \in {"size", "early", "noface"})
          => life'.ret = "error" /\ ~life'.init]_vars

\* A failed Init left the wait image on the face, and the RunTick after it
\* returned "not initialized" with the tick counter still 0.
C22_Witness ==
    /\ life.made /\ ~life.init /\ life.op = "RunTick" /\ life.ret = "error"
    /\ activeAnim = BusyAnim /\ tick = 0 /\ steps = << >>

\* The fields of an RGB565 value.
R5(c) == Shr(c, roff) % 2 ^ rwid
G6(c) == Shr(c, goff) % 2 ^ gwid
B5(c) == Shr(c, boff) % 2 ^ bwid

\* C23: RGBA() of every RGB565 value has alpha 0xFF and the channels
\* R8 = r5<<3 | r5>>2, G8 = g6<<2 | g6>>4, B8 = b5<<3 | b5>>2; a field of 0
\* gives 0x00, a field of all ones gives 0xFF, and a larger field gives a
\* larger channel.
C23_BitReplication ==
    rgb.n > 0
    => LET r5 == R5(rgb.c)
           g6 == G6(rgb.c)
           b5 == B5(rgb.c)
       IN  /\ rgb.out.A = 255
           /\ rgb.out.R = BitOr(Shl(r5, 3), Shr(r5, 2))
           /\ rgb.out.G = BitOr(Shl(g6, 2), Shr(g6, 4))
           /\ rgb.out.B = BitOr(Shl(b5, 3), Shr(b5, 2))
           /\ r5 = 0 => rgb.out.R = 0
           /\ g6 = 0 => rgb.out.G = 0
           /\ b5 = 0 => rgb.out.B = 0
           /\ r5 = rmask => rgb.out.R = 255
           /\ g6 = gmask => rgb.out.G = 255
           /\ b5 = bmask => rgb.out.B = 255
           /\ r5 > 0 => RGBA(Pack(r5 - 1, g6, b5)).R < rgb.out.R
           /\ g6 > 0 => RGBA(Pack(r5, g6 - 1, b5)).G < rgb.out.G
           /\ b5 > 0 => RGBA(Pack(r5, g6, b5 - 1)).B < rgb.out.B

\* RGBA was called on a value whose replicated low bits are not all 0 and
\* not all 1: the fields 21, 41 and 10 gave 0xAD, 0xA6 and 0x52.
C23_Witness ==
    /\ rgb.n > 0 /\ rgb.c = Pack(21, 41, 10)
    /\ rgb.out = [R |-> 173, G |-> 166, B |-> 82, A |-> 255]


\* C24: the controller never presents a surface that reports it cannot
\* take a frame now.  For the status surface: in a tick in which the status
\* display answered false to CanUpdateNow(), neither clearStatusScreen nor
\* the end of the tick presents it.
C24_NeverPresentsUnready ==
    Did("statusBusy") => ~Did("clearStatus") /\ ~Did("statusDisplay")

\* C25: New returns an error and no controller when the frame rate is 0,
\* when the status surface is nil or when the driver is nil; otherwise it
\* returns a controller that is not initialized, in state Boot, with the
\* tick counter 0.
C25_NewChecksItsArguments ==
    [][life'.op = "New"
       => IF \/ life'.args[1] = 0
             \/ life'.args[2] = "nil"
             \/ life'.args[3] = "nil"
          THEN life'.ret = "error" /\ ~life'.made
          ELSE /\ life'.ret = "nil" /\ life'.made /\ ~life'.init
               /\ statusState' = "boot" /\ tick' = 0]_vars

\* New was refused for the nil driver alone, and no controller exists.
C25_Witness ==
    /\ life.op = "New" /\ life.ret = "error" /\ ~life.made
    /\ life.args = <<Framerate, "display", "nil">>

\* C26: with V visible rows, Up on the focused node decreases selected by 1
\* unless it is 0 and then sets top to min(top, selected); Down increases
\* selected by 1 unless it is length - 1 and then advances top by exactly
\* one if selected >= top + V - 1 and leaves it otherwise; neither changes
\* any other node.
C26_UpDownMoveTheCursor ==
    [][(/\ statusState = "menu" /\ pressed' \in {"up", "down"}
        /\ activeMenu # Nil)
       => LET m == activeMenu
              n == NodeLen(Ctl, m)
          IN  /\ ~crashed'
              /\ pressed' = "up"
                 => /\ selected'[m] = IF selected[m] = 0
                                      THEN 0 ELSE selected[m] - 1
                    /\ top'[m] = Min(top[m], selected'[m])
              /\ pressed' = "down"
                 => /\ selected'[m] = IF selected[m] = n - 1
                                      THEN selected[m] ELSE selected[m] + 1
                    /\ top'[m] = IF selected'[m] >= top[m] + VisibleRows - 1
                                 THEN top[m] + 1 ELSE top[m]
              /\ \A k \in Menuables \ {m} :
                    selected'[k] = selected[k] /\ top'[k] = top[k]
              /\ prev' = prev /\ active' = active
              /\ activeMenu' = m]_vars

\* A child that is an ActionItem.
IsAction(n) == n # Nil /\ ~IsMenu(n) /\ ~IsSetting(n)

\* C27: Select on a Menu row whose child is an ActionItem invokes the
\* item's callback exactly once in that tick and, unless the callback
\* changes the overlay state, leaves the focused node, every selected and
\* top and every back-reference unchanged.
C27_SelectOnAction ==
    [][(/\ statusState = "menu" /\ pressed' = "menu"
        /\ IsAction(Target(activeMenu)))
       => /\ calls' = << <<Target(activeMenu), -1>> >>
          /\ ~crashed'
          /\ statusState' = "menu"
             => /\ activeMenu' = activeMenu
                /\ selected' = selected /\ top' = top /\ prev' = prev]_vars

\* "Slide" of the first image was invoked from its second row: the
\* animation runs, and the image's menu still has the focus and its cursor.
C27_Witness ==
    /\ pressed = "menu" /\ focusAt = Img(1)
    /\ calls = << <<SlideAct(1), -1>> >>
    /\ statusState = "menu" /\ activeMenu = Img(1)
    /\ selected[Img(1)] = 1 /\ prev[Img(1)] = Anims
    /\ activeAnim = SlideAct(1) /\ faceState = "animation"

\* The explicit switches of the animation: Back in Idle, a selection in
\* the menu that starts the animation that is active afterwards, and the
\* end of the busy state.
BackInIdle == statusState = "idle" /\ pressed' = "back"
MenuSelection ==
    /\ statusState = "menu" /\ pressed' = "menu"
    /\ calls' = << <<activeAnim', -1>> >>
BusyEnds == faceState = "busy"

\* C28: DrawFrame of Static, Slide and Face always returns true; the
\* active animation leaves Static or Slide only by Back in Idle, by a
\* selection in the menu or through Busy, and leaves Face only by a
\* selection in the menu or through Busy; DrawFrame of Static writes no
\* pixel.
C28_NeverComplete ==
    [][(tick' # tick /\ ~crashed')
       => /\ drawn'.anim[1] \in {"static", "slide", "face"} => drawn'.cont
          /\ drawn'.anim[1] = "static" => ~drawn'.wrote
          /\ (activeAnim[1] \in {"static", "slide"}
                /\ activeAnim' # activeAnim)
             => BackInIdle \/ MenuSelection \/ BusyEnds
          /\ (activeAnim = FaceAnim /\ activeAnim' # FaceAnim)
             => MenuSelection \/ BusyEnds]_vars

\* Slide of the first image is still the active animation after the menu
\* it was started from has timed out, and it drew a frame in the last tick.
C28_Witness ==
    /\ activeAnim = SlideAct(1) /\ faceState = "animation"
    /\ drawn = [anim |-> SlideAct(1), gen |-> 0, cont |-> TRUE,
                wrote |-> TRUE]
    /\ statusState = "idle" /\ pressed = "unpolled" /\ tick > 8
\* C29: while Peek retreats, the surface row it moves up from is blank
\* after the step that leaves it, and when DrawFrame has returned false
\* every pixel the image ever covered is blank.
C29_PeekLeavesNoTrail ==
    /\ [][(canvas.on /\ canvas.p.moveUp /\ canvas'.p.y < canvas.p.y)
          => \A c \in canvas'.cells : c[2] # canvas.p.y + canvas.ih - 1]_vars
    /\ [](~canvas.cont => canvas.cells \cap canvas.covered = {})

\* A two by two image came down over a two by two surface, covered all of
\* it, went up again and ended; the surface is blank.
C29_Witness ==
    /\ canvas.on /\ ~canvas.cont /\ canvas.p.shown /\ canvas.p.fin
    /\ canvas.iw = 2 /\ canvas.ih = 2
    /\ canvas.covered = SurfCells(2, 2)
    /\ canvas.cells = {}
\* The prefix the claim gives the entry k of node m.
ClaimedPrefix(m, k) ==
    IF IsMenu(m)
    THEN LET item == Items(m, hwLen)[k + 1]
         IN  CASE IsMenu(item) -> "+"
               [] IsSetting(item) -> ">"
               [] OTHER -> "*"
    ELSE IF k = active[m] THEN "*" ELSE " "

\* C30: every render of a focused node with at least one child or option
\* writes the title inverted on row 0, lists the entries top .. top+V-1
\* that exist on the rows after it, writes exactly one listed row inverted,
\* the row of the entry selected, and gives every row the prefix of its
\* entry: '+', '*' or '>' in a Menu, the marker of the active option in a
\* SettingItem.
C30_RenderShowsCursor ==
    (/\ statusState = "menu" /\ ~crashed /\ Did("render")
     /\ activeMenu # Nil /\ Count(Ctl, activeMenu) >= 1)
    => LET m == activeMenu
           R == Render(Ctl, m)
           listed == {k \in top[m]..(top[m] + VisibleRows - 1) :
                         k < Count(Ctl, m)}
       IN  /\ R.title = m /\ R.titleInverse
           /\ {R.rows[i].index : i \in DOMAIN R.rows} = listed
           /\ \A i \in DOMAIN R.rows :
                 /\ R.rows[i].line = R.rows[i].index - top[m] + 1
                 /\ R.rows[i].prefix = ClaimedPrefix(m, R.rows[i].index)
                 /\ R.rows[i].inverse <=> R.rows[i].index = selected[m]
           /\ Cardinality({i \in DOMAIN R.rows : R.rows[i].inverse}) = 1

\* C31: Select on a focused Menu never reads a child at an index that is
\* not below the number of children: whenever the guard of Select lets the
\* read "Items[selected]" happen, selected < len(Items), and the tick does
\* not end in a run-time panic.
C31_SelectReadsInRange ==
    [][(/\ statusState = "menu" /\ pressed' = "menu"
        /\ IsMenu(activeMenu) /\ ~SelectGuard(Ctl, activeMenu))
       => /\ selected[activeMenu] < Count(Ctl, activeMenu)
          /\ ~crashed']_vars
\* C32: after every RunTick that returns, the face state is not Busy, it
\* is Default exactly when the active animation is Face and Animation
\* exactly when it is an animation started from the menu, and the
\* animation RunTick called DrawFrame on was not nil, also in the first
\* tick after Init and in the first tick after Busy.
C32_FaceStateMatchesAnimation ==
    [][(life'.op = "RunTick" /\ life'.ret = "nil")
       => /\ faceState' # "busy"
          /\ faceState' = "default" <=> activeAnim' = FaceAnim
          /\ faceState' = "animation"
             <=> \E i \in 1..NumImages :
                   activeAnim' \in {StaticAct(i), SlideAct(i), PeekAct(i)}
          /\ drawn'.anim # Nil /\ activeAnim' # Nil]_vars

\* The first tick after a Busy that interrupted Slide of the first image:
\* Face was activated and drawn, and the face state is Default.
C32_Witness ==
    /\ life.op = "RunTick" /\ life.ret = "nil" /\ life.prior = "Busy"
    /\ selected[Img(1)] = 1 /\ tick > 7
    /\ drawn.anim = FaceAnim /\ activeAnim = FaceAnim
    /\ faceState = "default"
\* The channel a label of "Face dupl. color" names.
ChannelNamed(label) ==
    CASE label = "full" -> colorChannelNone
      [] label = "red" -> colorChannelRed
      [] label = "green" -> colorChannelGreen
      [] label = "blue" -> colorChannelBlue

\* C33: confirming an option of a built-in setting applies the value its
\* label names: the frame skip becomes the number on the label, the
\* downmix channel the colour named (full: none), the cutoff 16 times the
\* hexadecimal digit on the label.
C33_LabelsNameTheValues ==
    [][(/\ statusState = "menu" /\ pressed' = "menu"
        /\ activeMenu \in {SkipItem, ColorItem, CutoffItem}
        /\ selected[activeMenu] < NumOptions(activeMenu))
       => LET k == selected[activeMenu] + 1
          IN  /\ activeMenu = SkipItem
                 => statusFrameSkip' = SkipLabels[k]
              /\ activeMenu = ColorItem
                 => statusDownmixChannel' = ChannelNamed(ColorLabels[k])
              /\ activeMenu = CutoffItem
                 => statusDownmixCutoff' = CutoffLabels[k] * 16]_vars

\* The frame skip, the channel and the cutoff that belong to an option
\* index of the three built-in settings.
SkipOfIndex(i) == IF i = 0 THEN 0 ELSE 2 ^ (i - 1)
ChannelOfIndex(i) == i
CutoffOfIndex(i) == (i + 1) * 16

\* C34: at every tick boundary after Init the active index of each
\* built-in setting belongs to the configuration in force: the frame skip,
\* the downmix channel and the downmix cutoff are the ones of the active
\* options, from the defaults of Init on and through every menu event.
C34_ActiveMatchesConfiguration ==
    (life.init /\ ~crashed)
    => /\ statusFrameSkip = SkipOfIndex(active[SkipItem])
       /\ statusDownmixChannel = ChannelOfIndex(active[ColorItem])
       /\ statusDownmixCutoff = CutoffOfIndex(active[CutoffItem])

\* The last option of "Face dupl. cutoff" was confirmed after the colour
\* had been set to green.
C34_Witness ==
    /\ pressed = "menu" /\ focusAt = CutoffItem
    /\ calls = << <<CutoffItem, 13>> >>
    /\ active[CutoffItem] = 13 /\ statusDownmixCutoff = 224
    /\ active[ColorItem] = 2 /\ statusDownmixChannel = colorChannelGreen
    /\ active[SkipItem] = 0 /\ statusFrameSkip = 0

\* The configuration the settings act on.
Configuration ==
    <<statusFrameSkip, statusDownmixChannel, statusDownmixCutoff>>

\* C35: Back while a SettingItem is focused returns the focus to the node
\* the item was entered from, changes no active index and invokes no apply;
\* Up and Down on the item change neither, so the configuration after the
\* Back is the one from before the item was entered.
C35_BackDiscardsTheCursor ==
    [][/\ (/\ statusState = "menu" /\ pressed' = "back"
           /\ IsSetting(activeMenu))
          => /\ activeMenu' = prev[activeMenu] /\ activeMenu' # Nil
             /\ prev'[activeMenu] = Nil
             /\ active' = active /\ calls' = << >>
             /\ Configuration' = Configuration
       /\ (/\ statusState = "menu" /\ IsSetting(activeMenu)
           /\ tick' # tick /\ pressed' # "menu")
          => /\ active' = active /\ calls' = << >>
             /\ Configuration' = Configuration]_vars

\* Back left "Face dupl. cutoff" with the cursor two options below the
\* active one: the active option and the cutoff are still those of Init.
C35_Witness ==
    /\ pressed = "back" /\ focusAt = CutoffItem /\ activeMenu = Internal
    /\ selected[CutoffItem] = 11 /\ active[CutoffItem] = 9
    /\ statusDownmixCutoff = 160 /\ calls = << >>

\* C36: whenever the apply callback of a SettingItem is invoked, its
\* argument is an index of one of the item's options, items without
\* options included.
C36_ApplyGetsAnOption ==
    \A k \in 1..Len(calls) :
       IsSetting(calls[k][1])
       => 0 <= calls[k][2] /\ calls[k][2] < NumOptions(calls[k][1])

\* C37: every pixel the controller writes to the status surface as face
\* preview lies inside that surface, 0 <= x < status width and
\* 0 <= y < status height, for every pair of surfaces Init accepts.
C37_PreviewInsideStatus ==
    \A q \in preview.at :
       /\ 0 <= q[1] /\ q[1] < preview.sw
       /\ 0 <= q[2] /\ q[2] < preview.sh

\* The number of back-references pv to follow from node a to the root
\* menu, -1 when the root is not among the first k nodes.
RECURSIVE StepsToRoot(_, _, _)
StepsToRoot(pv, a, k) ==
    IF a = Root THEN 0
    ELSE IF a = Nil \/ k = 0 THEN -1
    ELSE LET r == StepsToRoot(pv, pv[a], k - 1)
         IN  IF r < 0 THEN -1 ELSE r + 1

Depth == StepsToRoot(prev, activeMenu, Cardinality(Menuables))

\* The focus moved to a child, or back to the node it came from.
Pushed == activeMenu' # activeMenu /\ prev'[activeMenu'] = activeMenu
Popped == activeMenu' # activeMenu /\ activeMenu' = prev[activeMenu]

\* C38: while the menu is open the back-references lead from the focused
\* node to the root menu, which has none; opening the menu starts at the
\* root, every push makes the way one step longer and every pop one step
\* shorter, and nothing else changes it; a Back handled within the
\* timeout closes the menu when the root is focused and otherwise moves
\* one step towards it, so (depth + 1) Backs in a row close the menu.
C38_BackReferencesLeadToRoot ==
    [][/\ (statusState' = "menu" /\ ~crashed')
          => Depth' >= 0 /\ prev'[Root] = Nil
       /\ (statusState # "menu" /\ statusState' = "menu" /\ ~crashed')
          => Depth' = 0
       /\ (statusState = "menu" /\ statusState' = "menu" /\ ~crashed')
          => /\ Pushed => Depth' = Depth + 1
             /\ Popped => Depth' = Depth - 1
             /\ ~Pushed /\ ~Popped => Depth' = Depth
       /\ (/\ statusState = "menu" /\ tick' # tick /\ Did("poll")'
           /\ pressed' = "back" /\ ~crashed')
          => IF Depth = 0
             THEN statusState' = "idle"
             ELSE statusState' = "menu" /\ Depth' = Depth - 1]_vars

\* Three Backs in a row, from an option list of the hardware menu two
\* steps below the root, closed the menu: the eight ticks leave room for
\* nothing else.
C38_Witness ==
    /\ statusState = "idle" /\ pressed = "back" /\ focusAt = Root
    /\ selected[HwItem(1)] = 1 /\ active[HwItem(1)] = 0
    /\ tick = 8 /\ ~crashed

\* The controller idle, not forced to update, at the 32-bit tick of fps
\* as uint8(g.tick) shows it.
AtTick8 ==
    [Ctl EXCEPT !.tick = Low8(fps.tick), !.statusState = "idle",
                !.statusForceUpdate = FALSE]

\* "tick mod skip == 0" on the full counter; no skipping with divisor 0.
FullGate ==
    statusFrameSkip = 0 \/ Mod32(fps.tick, statusFrameSkip) = 0

\* C39: for every divisor "Frame skip" can apply and every 32-bit tick,
\* the two frame-skip gates, computed on the tick truncated to 8 bits,
\* answer as "tick mod skip == 0" on the full counter does, the ticks
\* around the 8-bit and the 32-bit wraparound included.
C39_GateAgreesWithFullTick ==
    /\ canRedrawStatus(AtTick8, TRUE) = FullGate
    /\ SetPixelGate(AtTick8, TRUE) = FullGate

\* The gate is open, with divisor 16, on the tick at which the 32-bit
\* counter wrapped to 0.
C39_Witness ==
    /\ fps.tick = <<0, 0>> /\ fps.n > 0 /\ statusFrameSkip = 16
    /\ canRedrawStatus(AtTick8, TRUE)

====
